---- MODULE Spec2Model ----
(***************************************************************************)
(* A model of the performance analysis and negative-marking scoring engine *)
(* of NeuroLearn (src/assessment.py, class PerformanceAnalyzer), of the    *)
(* question timer and the console test (classes TestTimer and              *)
(* TestInterface), and of the result submission endpoint of src/app.py.    *)
(*                                                                         *)
(* Numbers.  The program computes with Python floats.  The model holds the *)
(* exact value of every quantity, as integers in fixed units:              *)
(*   - an unrounded mark is an integer count of 1/MarkScale of a mark      *)
(*     (MarkScale = 3000, so that 1/3, 0.1 and 0.25 of a mark are exact);  *)
(*   - a value the program passes through round(x, 3) is held in           *)
(*     thousandths, one passed through round(x, 2) in hundredths;          *)
(*   - a mean or a ratio is a fraction [n, d].                             *)
(* A float differs from the exact value of its expression by a few units   *)
(* in the 16th significant digit.  That decides a result only where the    *)
(* exact value lies on a boundary: half way between two roundings for      *)
(* round(), equal to the other side for a comparison.  There the model     *)
(* computes the program's float expression operation by operation (see     *)
(* "Python floats" below) and rounds or compares that float; anywhere else *)
(* it rounds or compares the exact value, which gives the same result.     *)
(***************************************************************************)
EXTENDS Integers, Sequences, FiniteSets, TLC

VARIABLES
    test_results,   \* the attempt list handed to the analyzer (List[Dict])
    op,             \* the analyzer method invoked last ("none" before any call)
    ret,            \* what that call returned (or the exception it raised)
    topic_cache,    \* PerformanceAnalyzer.topic_cache: cache key -> topic label
    calls,          \* categorize_question_topic calls made so far, in order
    timers,         \* the TestTimer objects constructed so far (their fields)
    threads,        \* the timer_countdown threads started so far
    now,            \* the reading of time.time(), in seconds
    time_up_flag    \* time_up_flag[0] of each get_user_answer call so far

vars == <<test_results, op, ret, topic_cache, calls, timers, threads, now,
          time_up_flag>>

\* The variables of the console test, which the analyzer never touches.
console_vars == <<timers, threads, now, time_up_flag>>

(***************************************************************************)
(* Arithmetic helpers                                                      *)
(***************************************************************************)
Abs(x) == IF x < 0 THEN -x ELSE x

Max(a, b) == IF a >= b THEN a ELSE b

Min(a, b) == IF a <= b THEN a ELSE b

\* round(n / d) to the nearest integer, ties to even (d > 0), as Python's
\* round() does on the exact value.
RoundHalfEven(n, d) ==
    LET q == n \div d
        r == n % d
    IN  IF 2 * r < d THEN q
        ELSE IF 2 * r > d THEN q + 1
        ELSE IF q % 2 = 0 THEN q ELSE q + 1

\* One mark, in the unit unrounded marks are counted in.
MarkScale == 3 * 1000

\* round(x, 3) of a mark value x given in 1/MarkScale: the result in thousandths.
Round3(x) == RoundHalfEven(x * 1000, MarkScale)

(***************************************************************************)
(* Python floats (IEEE 754 binary64, round to nearest, ties to even)       *)
(*                                                                         *)
(* A natural number of any size is a sequence of limbs below LimbBase,     *)
(* least significant first, with no zero limb at the end.  A float is      *)
(* [neg, m, e]: the number (-1)^neg * m * 2^e, where m is zero (<<>>) or   *)
(* has exactly MantissaBits bits.  Overflow and subnormal numbers are out  *)
(* of reach of the quantities of the program and are not modelled.         *)
(***************************************************************************)
PowersOfTwo ==
    <<1, 2, 4, 8, 16, 32, 64, 128, 256, 512, 1024, 2048, 4096, 8192>>

\* the bits of a limb: the product of two limbs fits a 32-bit integer
LimbBits == Len(PowersOfTwo)

LimbBase == 2 * PowersOfTwo[LimbBits]

\* the significand of a binary64: 52 stored bits and the leading one
MantissaBits == 52 + 1

\* 2^k for k below LimbBits
Pow2(k) == PowersOfTwo[k + 1]

\* the number of bits of a limb
BitLen(n) == Cardinality({k \in 0..(LimbBits - 1) : Pow2(k) <= n})

\* The operations of the library, and the methods of the program that compute
\* with floats, are applied by name through the one recursive operator Call
\* (with 0 for the arguments an operation does not take), so that TLC
\* analyses their definitions once and not once for every place of use.
RECURSIVE Call(_, _, _, _, _, _)

BigNorm(a) == Call("BigNorm", a, 0, 0, 0, 0)

BigFromInt(n) == Call("BigFromInt", n, 0, 0, 0, 0)

BigToInt(a) == Call("BigToInt", a, 0, 0, 0, 0)

BigAdd(a, b) == Call("BigAdd", a, b, 0, 0, 0)

BigSub(a, b) == Call("BigSub", a, b, 0, 0, 0)

BigCmp(a, b) == Call("BigCmp", a, b, 0, 0, 0)

BigMulInt(a, k) == Call("BigMulInt", a, k, 0, 0, 0)

BigShiftLimbs(a, n) == Call("BigShiftLimbs", a, n, 0, 0, 0)

BigMul(a, b) == Call("BigMul", a, b, 0, 0, 0)

BigShl(a, bits) == Call("BigShl", a, bits, 0, 0, 0)

BigShr(a, bits) == Call("BigShr", a, bits, 0, 0, 0)

BigBitLen(a) == Call("BigBitLen", a, 0, 0, 0, 0)

BigDivModStep(r, limb, b) == Call("BigDivModStep", r, limb, b, 0, 0)

BigDivModFrom(a, b, i) == Call("BigDivModFrom", a, b, i, 0, 0)

BigDivMod(a, b) == Call("BigDivMod", a, b, 0, 0, 0)

BigShrHalfEven(a, bits) == Call("BigShrHalfEven", a, bits, 0, 0, 0)

FRoundBig(neg, n, e) == Call("FRoundBig", neg, n, e, 0, 0)

FInt(n) == Call("FInt", n, 0, 0, 0, 0)

FNeg(x) == Call("FNeg", x, 0, 0, 0, 0)

FAbs(x) == Call("FAbs", x, 0, 0, 0, 0)

FCmpAbs(x, y) == Call("FCmpAbs", x, y, 0, 0, 0)

FCmp(x, y) == Call("FCmp", x, y, 0, 0, 0)

FLess(x, y) == Call("FLess", x, y, 0, 0, 0)

FAdd(x, y) == Call("FAdd", x, y, 0, 0, 0)

FSub(x, y) == Call("FSub", x, y, 0, 0, 0)

FMul(x, y) == Call("FMul", x, y, 0, 0, 0)

FDiv(x, y) == Call("FDiv", x, y, 0, 0, 0)

FRat(n, d) == Call("FRat", n, d, 0, 0, 0)

FRound(x, scale) == Call("FRound", x, scale, 0, 0, 0)

\* a without the zero limbs at its end
BigNormImpl(a) ==
    LET used == {i \in 1..Len(a) : a[i] # 0}
    IN  IF used = {} THEN <<>>
        ELSE SubSeq(a, 1, CHOOSE i \in used : \A j \in used : j <= i)

\* the limbs of an integer 0 <= n < 2^31
BigFromIntImpl(n) ==
    BigNorm(<<n % LimbBase, (n \div LimbBase) % LimbBase,
              n \div (LimbBase * LimbBase)>>)

\* limb number i of a, zero beyond its ends
Limb(a, i) == IF 1 <= i /\ i <= Len(a) THEN a[i] ELSE 0

\* the integer of at most three limbs, below 2^31
BigToIntImpl(a) ==
    Limb(a, 1) + LimbBase * Limb(a, 2) + LimbBase * LimbBase * Limb(a, 3)
\* a + b: the carry into limb i is 1 when a limb below it overflows and the
\* limbs between pass the carry on
BigAddImpl(a, b) ==
    LET n == IF Len(a) >= Len(b) THEN Len(a) ELSE Len(b)
        sum(i) == Limb(a, i) + Limb(b, i)
        carry(i) == IF \E j \in 1..(i - 1) :
                          /\ sum(j) >= LimbBase
                          /\ \A k \in (j + 1)..(i - 1) : sum(k) = LimbBase - 1
                    THEN 1 ELSE 0
    IN  BigNorm([i \in 1..(n + 1) |-> (sum(i) + carry(i)) % LimbBase])

\* a - b for a >= b: the borrow from limb i is 1 when a limb below it falls
\* short and the limbs between pass the borrow on
BigSubImpl(a, b) ==
    LET diff(i) == Limb(a, i) - Limb(b, i)
        borrow(i) == IF \E j \in 1..(i - 1) :
                           /\ diff(j) < 0
                           /\ \A k \in (j + 1)..(i - 1) : diff(k) = 0
                     THEN 1 ELSE 0
    IN  BigNorm([i \in 1..Len(a) |->
                    (diff(i) - borrow(i) + LimbBase) % LimbBase])

\* -1, 0 or 1 as a is below, equal to or above b
BigCmpImpl(a, b) ==
    IF Len(a) # Len(b) THEN (IF Len(a) < Len(b) THEN -1 ELSE 1)
    ELSE LET differ == {i \in 1..Len(a) : a[i] # b[i]}
         IN  IF differ = {} THEN 0
             ELSE LET top == CHOOSE i \in differ : \A j \in differ : j <= i
                  IN  IF a[top] < b[top] THEN -1 ELSE 1

\* a * k for 0 <= k < LimbBase: the low halves of the limb products, plus
\* their high halves one limb up
BigMulIntImpl(a, k) ==
    BigAdd([i \in 1..Len(a) |-> (a[i] * k) % LimbBase],
           [i \in 1..(Len(a) + 1) |->
               IF i = 1 THEN 0 ELSE (a[i - 1] * k) \div LimbBase])

BigShiftLimbsImpl(a, n) == IF a = <<>> THEN a ELSE [i \in 1..n |-> 0] \o a

\* a * b for a of at most four limbs: column k sums the limb products of
\* weight k (each sum is below 2^30), and the columns are added as their low
\* limbs, their middle limbs one limb up and their high limbs two limbs up
BigMulImpl(a, b) ==
    LET col(k) == Limb(a, 1) * Limb(b, k) + Limb(a, 2) * Limb(b, k - 1)
                    + Limb(a, 3) * Limb(b, k - 2) + Limb(a, 4) * Limb(b, k - 3)
        n == Len(b) + 3
    IN  BigAdd(BigAdd([k \in 1..n |-> col(k) % LimbBase],
                      [k \in 1..(n + 1) |->
                          IF k = 1 THEN 0
                          ELSE (col(k - 1) \div LimbBase) % LimbBase]),
               [k \in 1..(n + 2) |->
                   IF k <= 2 THEN 0
                   ELSE col(k - 2) \div (LimbBase * LimbBase)])

\* a * 2^bits
BigShlImpl(a, bits) ==
    BigShiftLimbs(BigMulInt(a, Pow2(bits % LimbBits)), bits \div LimbBits)

\* a \div 2^bits: each limb takes the high bits of one limb of a and the
\* low bits of the next
BigShrImpl(a, bits) ==
    LET limbs == bits \div LimbBits
        low == Pow2(bits % LimbBits)
    IN  BigNorm([i \in 1..(Len(a) - limbs) |->
                    Limb(a, i + limbs) \div low
                        + (Limb(a, i + limbs + 1) % low) * (LimbBase \div low)])

BigBitLenImpl(a) ==
    IF a = <<>> THEN 0 ELSE LimbBits * (Len(a) - 1) + BitLen(a[Len(a)])

\* One step of the long division by b, whose top limb is at least
\* LimbBase / 2: r, the remainder so far, takes in the next limb; the quotient
\* limb is at most two below its estimate from the top limbs.
BigDivModStepImpl(r, limb, b) ==
    LET n == Len(b)
        r2 == <<limb>> \o r
        top == Limb(r2, n + 1) * LimbBase + Limb(r2, n)
        guess == IF top \div b[n] >= LimbBase THEN LimbBase - 1
                 ELSE top \div b[n]
        q == CHOOSE t \in {guess - 2, guess - 1, guess} :
                /\ t >= 0
                /\ BigCmp(BigMulInt(b, t), r2) <= 0
                /\ t = guess \/ BigCmp(BigMulInt(b, t + 1), r2) > 0
    IN  [q |-> q, r |-> BigSub(r2, BigMulInt(b, q))]

\* the quotient limbs and the remainder of the limbs of a from number i up;
\* the top limbs of a, one fewer than b has, are below b
BigDivModFromImpl(a, b, i) ==
    IF i > Len(a) - Len(b) + 1
    THEN [q |-> <<>>, r |-> BigNorm(SubSeq(a, i, Len(a)))]
    ELSE LET above == BigDivModFrom(a, b, i + 1)
         IN  IF above.r = <<>> /\ a[i] = 0
             THEN [q |-> <<0>> \o above.q, r |-> <<>>]
             ELSE LET step == BigDivModStep(above.r, a[i], b)
                  IN  [q |-> <<step.q>> \o above.q, r |-> step.r]

\* quotient and remainder of a by b # 0: both are shifted so that the top
\* limb of the divisor is full
BigDivModImpl(a, b) ==
    LET shift == LimbBits - BitLen(b[Len(b)])
        res == BigDivModFrom(BigShl(a, shift), BigShl(b, shift), 1)
    IN  [q |-> BigNorm(res.q), r |-> BigShr(res.r, shift)]

FZero == [neg |-> FALSE, m |-> <<>>, e |-> 0]

\* a \div 2^bits rounded to the nearest integer, ties to even
BigShrHalfEvenImpl(a, bits) ==
    IF bits = 0 THEN a
    ELSE LET q == BigShr(a, bits)
             c == BigCmp(BigSub(a, BigShl(q, bits)), BigShl(<<1>>, bits - 1))
         IN  IF c > 0 \/ (c = 0 /\ Limb(q, 1) % 2 = 1) THEN BigAdd(q, <<1>>)
             ELSE q

\* the float nearest to (-1)^neg * n * 2^e
FRoundBigImpl(neg, n, e) ==
    IF n = <<>> THEN FZero
    ELSE LET len == BigBitLen(n)
         IN  IF len <= MantissaBits
             THEN [neg |-> neg, m |-> BigShl(n, MantissaBits - len),
                   e |-> e - (MantissaBits - len)]
             ELSE LET q == BigShrHalfEven(n, len - MantissaBits)
                  IN  IF BigBitLen(q) > MantissaBits
                      THEN [neg |-> neg, m |-> BigShr(q, 1),
                            e |-> e + (len - MantissaBits) + 1]
                      ELSE [neg |-> neg, m |-> q, e |-> e + (len - MantissaBits)]

\* float(n) of an integer
FIntImpl(n) == FRoundBig(n < 0, BigFromInt(IF n < 0 THEN -n ELSE n), 0)

FNegImpl(x) == IF x.m = <<>> THEN x ELSE [x EXCEPT !.neg = ~x.neg]

FAbsImpl(x) == [x EXCEPT !.neg = FALSE]

\* -1, 0 or 1 as |x| is below, equal to or above |y|
FCmpAbsImpl(x, y) ==
    IF x.m = <<>> \/ y.m = <<>>
    THEN (IF x.m = y.m THEN 0 ELSE IF x.m = <<>> THEN -1 ELSE 1)
    ELSE IF x.e # y.e THEN (IF x.e < y.e THEN -1 ELSE 1)
    ELSE BigCmp(x.m, y.m)

\* -1, 0 or 1 as x < y, x == y or x > y
FCmpImpl(x, y) ==
    IF x.neg # y.neg
    THEN (IF x.m = <<>> /\ y.m = <<>> THEN 0 ELSE IF x.neg THEN -1 ELSE 1)
    ELSE IF x.neg THEN -FCmpAbs(x, y) ELSE FCmpAbs(x, y)

FLessImpl(x, y) == FCmp(x, y) < 0

\* x + y
FAddImpl(x, y) ==
    IF x.m = <<>> THEN y
    ELSE IF y.m = <<>> THEN x
    ELSE LET e == IF x.e < y.e THEN x.e ELSE y.e
             a == BigShl(x.m, x.e - e)
             b == BigShl(y.m, y.e - e)
         IN  IF x.neg = y.neg THEN FRoundBig(x.neg, BigAdd(a, b), e)
             ELSE IF BigCmp(a, b) >= 0 THEN FRoundBig(x.neg, BigSub(a, b), e)
             ELSE FRoundBig(y.neg, BigSub(b, a), e)

\* x - y
FSubImpl(x, y) == FAdd(x, FNeg(y))

\* x * y
FMulImpl(x, y) ==
    IF x.m = <<>> \/ y.m = <<>> THEN FZero
    ELSE FRoundBig(x.neg # y.neg, BigMul(x.m, y.m), x.e + y.e)

\* x / y for y # 0: the quotient is taken to three bits more than a
\* mantissa holds; when the division leaves a remainder, one more bit says so
FDivImpl(x, y) ==
    IF y.m # <<>> /\ x.m = <<>> THEN FZero
    ELSE LET qr == BigDivMod(BigShl(x.m, MantissaBits + 3), y.m)
             e == x.e - y.e - (MantissaBits + 3)
         IN  IF qr.r = <<>> THEN FRoundBig(x.neg # y.neg, qr.q, e)
             ELSE FRoundBig(x.neg # y.neg,
                            BigAdd(BigMulInt(qr.q, 2), <<1>>), e - 1)

\* the float of the literal or quotient n / d of two integers
FRatImpl(n, d) == FDiv(FInt(n), FInt(d))

\* round(x, digits) as a count of 1 / scale, scale being 10^digits: the
\* exact value of the float is rounded, ties to even
FRoundImpl(x, scale) ==
    LET n == BigMulInt(x.m, scale)
        units == IF x.e >= 0 THEN BigToInt(BigShl(n, x.e))
                 ELSE BigToInt(BigShrHalfEven(n, -x.e))
    IN  IF x.neg THEN -units ELSE units

(***************************************************************************)
(* Rounding and comparing the floats of the program                        *)
(***************************************************************************)
\* n / d lies half way between two integers (d > 0)
IsTie(n, d) == 2 * (n % d) = d

\* round(x, 2), in hundredths, of the float x of an expression whose exact
\* value is n / d hundredths: the float decides when that value is a tie.
Round2Of(n, d, x) ==
    IF IsTie(n, d) THEN FRound(x, 100) ELSE RoundHalfEven(n, d)

\* round((num / den) * 100, 2) of two integers: a percentage, in hundredths
\* of a percent.
RoundPct(num, den) ==
    Round2Of(num * 100 * 100, den, FMul(FDiv(FInt(num), FInt(den)), FInt(100)))

\* An exact fraction n / d (d > 0), for means and ratios that are compared or
\* rounded later.
Rat(n, d) == [n |-> n, d |-> d]

RatLess(a, b) == a.n * b.d < b.n * a.d

\* The float nearest to the fraction x: the float of a decimal literal, of
\* the quotient of two integers, of statistics.mean and statistics.median
\* of whole numbers.
FloatOf(x) == FRat(x.n, x.d)

\* x < y of the floats of two expressions whose exact values are the
\* fractions a and b: the floats decide when the exact values are equal.
FloatLess(a, b, x, y) ==
    IF a.n * b.d = b.n * a.d THEN FLess(x, y) ELSE RatLess(a, b)

\* round(x, 2), in hundredths, of the float nearest to the fraction x
Round2(x) == Round2Of(x.n * 100, x.d, FloatOf(x))

RECURSIVE SeqSum(_)
SeqSum(s) == IF s = <<>> THEN 0 ELSE Head(s) + SeqSum(Tail(s))

\* statistics.mean(s) if s else 0
MeanOrZero(s) == IF s = <<>> THEN Rat(0, 1) ELSE Rat(SeqSum(s), Len(s))

RECURSIVE Insert(_, _)
Insert(x, sorted) ==
    IF sorted = <<>> THEN <<x>>
    ELSE IF x <= Head(sorted) THEN <<x>> \o sorted
    ELSE <<Head(sorted)>> \o Insert(x, Tail(sorted))

RECURSIVE Sorted(_)
\* sorted(s) of a list of numbers
Sorted(s) == IF s = <<>> THEN <<>> ELSE Insert(Head(s), Sorted(Tail(s)))

\* statistics.median(s) if s else 0
MedianOrZero(s) ==
    LET t == Sorted(s)
        n == Len(s)
    IN  IF n = 0 THEN Rat(0, 1)
        ELSE IF n % 2 = 1 THEN Rat(t[(n + 1) \div 2], 1)
        ELSE Rat(t[n \div 2] + t[n \div 2 + 1], 2)

(***************************************************************************)
(* Attempt records                                                         *)
(*                                                                         *)
(* time_taken is whatever the caller put in the dict: a number             *)
(* ([kind |-> "num", v |-> seconds]) or a non-numeric string               *)
(* ([kind |-> "str", v |-> 0]), for which float() raises ValueError and    *)
(* an order comparison with a number raises TypeError.                     *)
(***************************************************************************)
Num(t) == [kind |-> "num", v |-> t]

NotANumber == [kind |-> "str", v |-> 0]

IsNumeric(x) == x.kind = "num"

\* MARKING_SCHEME; marks in 1/MarkScale, thresholds in seconds.
MARKING_SCHEME ==
    [ correct_marks          |-> 1 * MarkScale,
      incorrect_penalty      |-> -(MarkScale \div 3),
      skip_marks             |-> 0,
      time_bonus_threshold   |-> 30,
      time_penalty_threshold |-> 55 ]

\* time_bonus = 0.1
TimeBonus == MarkScale \div 10

(***************************************************************************)
(* Strings                                                                 *)
(*                                                                         *)
(* A Python str is a sequence of one-character strings, so that            *)
(* concatenation, lower(), upper(), strip() and split() are computed       *)
(* character by character.  Str turns such a sequence into a TLA+ string,  *)
(* to compare a token with a keyword.                                      *)
(***************************************************************************)
\* The characters U+0020 .. U+007E, in order (U+0060, which a TLA+ string
\* cannot hold, as its escape).
AsciiChars ==
    << " ", "!", "\"", "#", "$", "%", "&", "'", "(", ")", "*", "+", ",", "-",
       ".", "/", "0", "1", "2", "3", "4", "5", "6", "7", "8", "9", ":", ";",
       "<", "=", ">", "?", "@", "A", "B", "C", "D", "E", "F", "G", "H", "I",
       "J", "K", "L", "M", "N", "O", "P", "Q", "R", "S", "T", "U", "V", "W",
       "X", "Y", "Z", "[", "\\", "]", "^", "_", "\\x60", "a", "b", "c", "d",
       "e", "f", "g", "h", "i", "j", "k", "l", "m", "n", "o", "p", "q", "r",
       "s", "t", "u", "v", "w", "x", "y", "z", "{", "|", "}", "~" >>

HexDigits ==
    << "0", "1", "2", "3", "4", "5", "6", "7", "8", "9", "a", "b", "c", "d",
       "e", "f" >>

\* The number a string of hexadecimal digits stands for.
RECURSIVE HexToInt(_)
HexToInt(s) ==
    IF s = "" THEN 0
    ELSE 16 * HexToInt(SubSeq(s, 1, Len(s) - 1))
         + (CHOOSE v \in 0..15 : HexDigits[v + 1] = SubSeq(s, Len(s), Len(s)))

\* n in `digits` hexadecimal digits.
RECURSIVE Hex(_, _)
Hex(n, digits) ==
    IF digits = 0 THEN ""
    ELSE Hex(n \div 16, digits - 1) \o HexDigits[(n % 16) + 1]

\* ord(c).  A character TLA+ has no escape for is written as its Python
\* escape, "\\x0b", "\\u212a" or "\\U00010400": a backslash, a letter and the
\* code in hexadecimal.
Ord(c) ==
    IF Len(c) > 1 THEN HexToInt(SubSeq(c, 3, Len(c)))
    ELSE IF c = "\t" THEN 9
    ELSE IF c = "\n" THEN 10
    ELSE IF c = "\f" THEN 12
    ELSE IF c = "\r" THEN 13
    ELSE 31 + (CHOOSE i \in 1..Len(AsciiChars) : AsciiChars[i] = c)

\* c is one of the characters U+0000 .. U+007F.
IsAscii(c) == Len(c) = 1 \/ Ord(c) < 128

\* "A" .. "Z"
AsciiUpperCase == {AsciiChars[i] : i \in 34..59}

\* chr(n)
Chr(n) ==
    IF n >= 32 /\ n <= 126 THEN AsciiChars[n - 31]
    ELSE IF n = 9 THEN "\t"
    ELSE IF n = 10 THEN "\n"
    ELSE IF n = 12 THEN "\f"
    ELSE IF n = 13 THEN "\r"
    ELSE IF n < 256 THEN "\\x" \o Hex(n, 2)
    ELSE IF n < 65536 THEN "\\u" \o Hex(n, 4)
    ELSE "\\U" \o Hex(n, 8)

\* The lower-case mapping of the Unicode database of Python 3.11 (Unicode
\* 14.0): <<first, last, step, delta>> stands for the characters first,
\* first + step, .. last, each of which lower() maps to the character delta
\* further on.  U+0130 (which becomes two characters) and U+03A3 (whose
\* lower case depends on its place) are not in the list.
LowerCaseRuns ==
    << <<65, 90, 1, 32>>, <<192, 214, 1, 32>>, <<216, 222, 1, 32>>,
       <<256, 302, 2, 1>>, <<306, 310, 2, 1>>, <<313, 327, 2, 1>>,
       <<330, 374, 2, 1>>, <<376, 376, 1, -121>>, <<377, 381, 2, 1>>,
       <<385, 385, 1, 210>>, <<386, 388, 2, 1>>, <<390, 390, 1, 206>>,
       <<391, 391, 1, 1>>, <<393, 394, 1, 205>>, <<395, 395, 1, 1>>,
       <<398, 398, 1, 79>>, <<399, 399, 1, 202>>, <<400, 400, 1, 203>>,
       <<401, 401, 1, 1>>, <<403, 403, 1, 205>>, <<404, 404, 1, 207>>,
       <<406, 406, 1, 211>>, <<407, 407, 1, 209>>, <<408, 408, 1, 1>>,
       <<412, 412, 1, 211>>, <<413, 413, 1, 213>>, <<415, 415, 1, 214>>,
       <<416, 420, 2, 1>>, <<422, 422, 1, 218>>, <<423, 423, 1, 1>>,
       <<425, 425, 1, 218>>, <<428, 428, 1, 1>>, <<430, 430, 1, 218>>,
       <<431, 431, 1, 1>>, <<433, 434, 1, 217>>, <<435, 437, 2, 1>>,
       <<439, 439, 1, 219>>, <<440, 440, 1, 1>>, <<444, 444, 1, 1>>,
       <<452, 452, 1, 2>>, <<453, 453, 1, 1>>, <<455, 455, 1, 2>>,
       <<456, 456, 1, 1>>, <<458, 458, 1, 2>>, <<459, 475, 2, 1>>,
       <<478, 494, 2, 1>>, <<497, 497, 1, 2>>, <<498, 500, 2, 1>>,
       <<502, 502, 1, -97>>, <<503, 503, 1, -56>>, <<504, 542, 2, 1>>,
       <<544, 544, 1, -130>>, <<546, 562, 2, 1>>, <<570, 570, 1, 10795>>,
       <<571, 571, 1, 1>>, <<573, 573, 1, -163>>, <<574, 574, 1, 10792>>,
       <<577, 577, 1, 1>>, <<579, 579, 1, -195>>, <<580, 580, 1, 69>>,
       <<581, 581, 1, 71>>, <<582, 590, 2, 1>>, <<880, 882, 2, 1>>,
       <<886, 886, 1, 1>>, <<895, 895, 1, 116>>, <<902, 902, 1, 38>>,
       <<904, 906, 1, 37>>, <<908, 908, 1, 64>>, <<910, 911, 1, 63>>,
       <<913, 929, 1, 32>>, <<932, 939, 1, 32>>, <<975, 975, 1, 8>>,
       <<984, 1006, 2, 1>>, <<1012, 1012, 1, -60>>, <<1015, 1015, 1, 1>>,
       <<1017, 1017, 1, -7>>, <<1018, 1018, 1, 1>>, <<1021, 1023, 1, -130>>,
       <<1024, 1039, 1, 80>>, <<1040, 1071, 1, 32>>, <<1120, 1152, 2, 1>>,
       <<1162, 1214, 2, 1>>, <<1216, 1216, 1, 15>>, <<1217, 1229, 2, 1>>,
       <<1232, 1326, 2, 1>>, <<1329, 1366, 1, 48>>, <<4256, 4293, 1, 7264>>,
       <<4295, 4295, 1, 7264>>, <<4301, 4301, 1, 7264>>,
       <<5024, 5103, 1, 38864>>, <<5104, 5109, 1, 8>>,
       <<7312, 7354, 1, -3008>>, <<7357, 7359, 1, -3008>>,
       <<7680, 7828, 2, 1>>, <<7838, 7838, 1, -7615>>, <<7840, 7934, 2, 1>>,
       <<7944, 7951, 1, -8>>, <<7960, 7965, 1, -8>>, <<7976, 7983, 1, -8>>,
       <<7992, 7999, 1, -8>>, <<8008, 8013, 1, -8>>, <<8025, 8031, 2, -8>>,
       <<8040, 8047, 1, -8>>, <<8072, 8079, 1, -8>>, <<8088, 8095, 1, -8>>,
       <<8104, 8111, 1, -8>>, <<8120, 8121, 1, -8>>, <<8122, 8123, 1, -74>>,
       <<8124, 8124, 1, -9>>, <<8136, 8139, 1, -86>>, <<8140, 8140, 1, -9>>,
       <<8152, 8153, 1, -8>>, <<8154, 8155, 1, -100>>, <<8168, 8169, 1, -8>>,
       <<8170, 8171, 1, -112>>, <<8172, 8172, 1, -7>>,
       <<8184, 8185, 1, -128>>, <<8186, 8187, 1, -126>>,
       <<8188, 8188, 1, -9>>, <<8486, 8486, 1, -7517>>,
       <<8490, 8490, 1, -8383>>, <<8491, 8491, 1, -8262>>,
       <<8498, 8498, 1, 28>>, <<8544, 8559, 1, 16>>, <<8579, 8579, 1, 1>>,
       <<9398, 9423, 1, 26>>, <<11264, 11311, 1, 48>>,
       <<11360, 11360, 1, 1>>, <<11362, 11362, 1, -10743>>,
       <<11363, 11363, 1, -3814>>, <<11364, 11364, 1, -10727>>,
       <<11367, 11371, 2, 1>>, <<11373, 11373, 1, -10780>>,
       <<11374, 11374, 1, -10749>>, <<11375, 11375, 1, -10783>>,
       <<11376, 11376, 1, -10782>>, <<11378, 11378, 1, 1>>,
       <<11381, 11381, 1, 1>>, <<11390, 11391, 1, -10815>>,
       <<11392, 11490, 2, 1>>, <<11499, 11501, 2, 1>>,
       <<11506, 11506, 1, 1>>, <<42560, 42604, 2, 1>>,
       <<42624, 42650, 2, 1>>, <<42786, 42798, 2, 1>>,
       <<42802, 42862, 2, 1>>, <<42873, 42875, 2, 1>>,
       <<42877, 42877, 1, -35332>>, <<42878, 42886, 2, 1>>,
       <<42891, 42891, 1, 1>>, <<42893, 42893, 1, -42280>>,
       <<42896, 42898, 2, 1>>, <<42902, 42920, 2, 1>>,
       <<42922, 42922, 1, -42308>>, <<42923, 42923, 1, -42319>>,
       <<42924, 42924, 1, -42315>>, <<42925, 42925, 1, -42305>>,
       <<42926, 42926, 1, -42308>>, <<42928, 42928, 1, -42258>>,
       <<42929, 42929, 1, -42282>>, <<42930, 42930, 1, -42261>>,
       <<42931, 42931, 1, 928>>, <<42932, 42946, 2, 1>>,
       <<42948, 42948, 1, -48>>, <<42949, 42949, 1, -42307>>,
       <<42950, 42950, 1, -35384>>, <<42951, 42953, 2, 1>>,
       <<42960, 42960, 1, 1>>, <<42966, 42968, 2, 1>>,
       <<42997, 42997, 1, 1>>, <<65313, 65338, 1, 32>>,
       <<66560, 66599, 1, 40>>, <<66736, 66771, 1, 40>>,
       <<66928, 66964, 2, 39>>, <<66929, 66938, 1, 39>>,
       <<66941, 66954, 1, 39>>, <<66957, 66962, 1, 39>>,
       <<66965, 66965, 1, 39>>, <<68736, 68786, 1, 64>>,
       <<71840, 71871, 1, 32>>, <<93760, 93791, 1, 32>>,
       <<125184, 125217, 1, 34>> >>

\* The characters with the property Cased, as ranges <<first, last>>.
CasedRanges ==
    << <<65, 90>>, <<97, 122>>, <<170, 170>>, <<181, 181>>, <<186, 186>>,
       <<192, 214>>, <<216, 246>>, <<248, 442>>, <<444, 447>>, <<452, 659>>,
       <<661, 696>>, <<704, 705>>, <<736, 740>>, <<837, 837>>, <<880, 883>>,
       <<886, 887>>, <<890, 893>>, <<895, 895>>, <<902, 902>>, <<904, 906>>,
       <<908, 908>>, <<910, 929>>, <<931, 1013>>, <<1015, 1153>>,
       <<1162, 1327>>, <<1329, 1366>>, <<1376, 1416>>, <<4256, 4293>>,
       <<4295, 4295>>, <<4301, 4301>>, <<4304, 4346>>, <<4349, 4351>>,
       <<5024, 5109>>, <<5112, 5117>>, <<7296, 7304>>, <<7312, 7354>>,
       <<7357, 7359>>, <<7424, 7615>>, <<7680, 7957>>, <<7960, 7965>>,
       <<7968, 8005>>, <<8008, 8013>>, <<8016, 8023>>, <<8025, 8025>>,
       <<8027, 8027>>, <<8029, 8029>>, <<8031, 8061>>, <<8064, 8116>>,
       <<8118, 8124>>, <<8126, 8126>>, <<8130, 8132>>, <<8134, 8140>>,
       <<8144, 8147>>, <<8150, 8155>>, <<8160, 8172>>, <<8178, 8180>>,
       <<8182, 8188>>, <<8305, 8305>>, <<8319, 8319>>, <<8336, 8348>>,
       <<8450, 8450>>, <<8455, 8455>>, <<8458, 8467>>, <<8469, 8469>>,
       <<8473, 8477>>, <<8484, 8484>>, <<8486, 8486>>, <<8488, 8488>>,
       <<8490, 8493>>, <<8495, 8500>>, <<8505, 8505>>, <<8508, 8511>>,
       <<8517, 8521>>, <<8526, 8526>>, <<8544, 8575>>, <<8579, 8580>>,
       <<9398, 9449>>, <<11264, 11492>>, <<11499, 11502>>, <<11506, 11507>>,
       <<11520, 11557>>, <<11559, 11559>>, <<11565, 11565>>,
       <<42560, 42605>>, <<42624, 42653>>, <<42786, 42887>>,
       <<42891, 42894>>, <<42896, 42954>>, <<42960, 42961>>,
       <<42963, 42963>>, <<42965, 42969>>, <<42997, 42998>>,
       <<43000, 43002>>, <<43824, 43866>>, <<43868, 43880>>,
       <<43888, 43967>>, <<64256, 64262>>, <<64275, 64279>>,
       <<65313, 65338>>, <<65345, 65370>>, <<66560, 66639>>,
       <<66736, 66771>>, <<66776, 66811>>, <<66928, 66938>>,
       <<66940, 66954>>, <<66956, 66962>>, <<66964, 66965>>,
       <<66967, 66977>>, <<66979, 66993>>, <<66995, 67001>>,
       <<67003, 67004>>, <<67456, 67456>>, <<67459, 67461>>,
       <<67463, 67504>>, <<67506, 67514>>, <<68736, 68786>>,
       <<68800, 68850>>, <<71840, 71903>>, <<93760, 93823>>,
       <<119808, 119892>>, <<119894, 119964>>, <<119966, 119967>>,
       <<119970, 119970>>, <<119973, 119974>>, <<119977, 119980>>,
       <<119982, 119993>>, <<119995, 119995>>, <<119997, 120003>>,
       <<120005, 120069>>, <<120071, 120074>>, <<120077, 120084>>,
       <<120086, 120092>>, <<120094, 120121>>, <<120123, 120126>>,
       <<120128, 120132>>, <<120134, 120134>>, <<120138, 120144>>,
       <<120146, 120485>>, <<120488, 120512>>, <<120514, 120538>>,
       <<120540, 120570>>, <<120572, 120596>>, <<120598, 120628>>,
       <<120630, 120654>>, <<120656, 120686>>, <<120688, 120712>>,
       <<120714, 120744>>, <<120746, 120770>>, <<120772, 120779>>,
       <<122624, 122633>>, <<122635, 122654>>, <<125184, 125251>>,
       <<127280, 127305>>, <<127312, 127337>>, <<127344, 127369>> >>

\* The characters with the property Case_Ignorable, as ranges <<first, last>>.
CaseIgnorableRanges ==
    << <<39, 39>>, <<46, 46>>, <<58, 58>>, <<94, 94>>, <<96, 96>>,
       <<168, 168>>, <<173, 173>>, <<175, 175>>, <<180, 180>>, <<183, 184>>,
       <<688, 879>>, <<884, 885>>, <<890, 890>>, <<900, 901>>, <<903, 903>>,
       <<1155, 1161>>, <<1369, 1369>>, <<1375, 1375>>, <<1425, 1469>>,
       <<1471, 1471>>, <<1473, 1474>>, <<1476, 1477>>, <<1479, 1479>>,
       <<1524, 1524>>, <<1536, 1541>>, <<1552, 1562>>, <<1564, 1564>>,
       <<1600, 1600>>, <<1611, 1631>>, <<1648, 1648>>, <<1750, 1757>>,
       <<1759, 1768>>, <<1770, 1773>>, <<1807, 1807>>, <<1809, 1809>>,
       <<1840, 1866>>, <<1958, 1968>>, <<2027, 2037>>, <<2042, 2042>>,
       <<2045, 2045>>, <<2070, 2093>>, <<2137, 2139>>, <<2184, 2184>>,
       <<2192, 2193>>, <<2200, 2207>>, <<2249, 2306>>, <<2362, 2362>>,
       <<2364, 2364>>, <<2369, 2376>>, <<2381, 2381>>, <<2385, 2391>>,
       <<2402, 2403>>, <<2417, 2417>>, <<2433, 2433>>, <<2492, 2492>>,
       <<2497, 2500>>, <<2509, 2509>>, <<2530, 2531>>, <<2558, 2558>>,
       <<2561, 2562>>, <<2620, 2620>>, <<2625, 2626>>, <<2631, 2632>>,
       <<2635, 2637>>, <<2641, 2641>>, <<2672, 2673>>, <<2677, 2677>>,
       <<2689, 2690>>, <<2748, 2748>>, <<2753, 2757>>, <<2759, 2760>>,
       <<2765, 2765>>, <<2786, 2787>>, <<2810, 2815>>, <<2817, 2817>>,
       <<2876, 2876>>, <<2879, 2879>>, <<2881, 2884>>, <<2893, 2893>>,
       <<2901, 2902>>, <<2914, 2915>>, <<2946, 2946>>, <<3008, 3008>>,
       <<3021, 3021>>, <<3072, 3072>>, <<3076, 3076>>, <<3132, 3132>>,
       <<3134, 3136>>, <<3142, 3144>>, <<3146, 3149>>, <<3157, 3158>>,
       <<3170, 3171>>, <<3201, 3201>>, <<3260, 3260>>, <<3263, 3263>>,
       <<3270, 3270>>, <<3276, 3277>>, <<3298, 3299>>, <<3328, 3329>>,
       <<3387, 3388>>, <<3393, 3396>>, <<3405, 3405>>, <<3426, 3427>>,
       <<3457, 3457>>, <<3530, 3530>>, <<3538, 3540>>, <<3542, 3542>>,
       <<3633, 3633>>, <<3636, 3642>>, <<3654, 3662>>, <<3761, 3761>>,
       <<3764, 3772>>, <<3782, 3782>>, <<3784, 3789>>, <<3864, 3865>>,
       <<3893, 3893>>, <<3895, 3895>>, <<3897, 3897>>, <<3953, 3966>>,
       <<3968, 3972>>, <<3974, 3975>>, <<3981, 3991>>, <<3993, 4028>>,
       <<4038, 4038>>, <<4141, 4144>>, <<4146, 4151>>, <<4153, 4154>>,
       <<4157, 4158>>, <<4184, 4185>>, <<4190, 4192>>, <<4209, 4212>>,
       <<4226, 4226>>, <<4229, 4230>>, <<4237, 4237>>, <<4253, 4253>>,
       <<4348, 4348>>, <<4957, 4959>>, <<5906, 5908>>, <<5938, 5939>>,
       <<5970, 5971>>, <<6002, 6003>>, <<6068, 6069>>, <<6071, 6077>>,
       <<6086, 6086>>, <<6089, 6099>>, <<6103, 6103>>, <<6109, 6109>>,
       <<6155, 6159>>, <<6211, 6211>>, <<6277, 6278>>, <<6313, 6313>>,
       <<6432, 6434>>, <<6439, 6440>>, <<6450, 6450>>, <<6457, 6459>>,
       <<6679, 6680>>, <<6683, 6683>>, <<6742, 6742>>, <<6744, 6750>>,
       <<6752, 6752>>, <<6754, 6754>>, <<6757, 6764>>, <<6771, 6780>>,
       <<6783, 6783>>, <<6823, 6823>>, <<6832, 6862>>, <<6912, 6915>>,
       <<6964, 6964>>, <<6966, 6970>>, <<6972, 6972>>, <<6978, 6978>>,
       <<7019, 7027>>, <<7040, 7041>>, <<7074, 7077>>, <<7080, 7081>>,
       <<7083, 7085>>, <<7142, 7142>>, <<7144, 7145>>, <<7149, 7149>>,
       <<7151, 7153>>, <<7212, 7219>>, <<7222, 7223>>, <<7288, 7293>>,
       <<7376, 7378>>, <<7380, 7392>>, <<7394, 7400>>, <<7405, 7405>>,
       <<7412, 7412>>, <<7416, 7417>>, <<7468, 7530>>, <<7544, 7544>>,
       <<7579, 7679>>, <<8125, 8125>>, <<8127, 8129>>, <<8141, 8143>>,
       <<8157, 8159>>, <<8173, 8175>>, <<8189, 8190>>, <<8203, 8207>>,
       <<8216, 8217>>, <<8228, 8228>>, <<8231, 8231>>, <<8234, 8238>>,
       <<8288, 8292>>, <<8294, 8303>>, <<8305, 8305>>, <<8319, 8319>>,
       <<8336, 8348>>, <<8400, 8432>>, <<11388, 11389>>, <<11503, 11505>>,
       <<11631, 11631>>, <<11647, 11647>>, <<11744, 11775>>,
       <<11823, 11823>>, <<12293, 12293>>, <<12330, 12333>>,
       <<12337, 12341>>, <<12347, 12347>>, <<12441, 12446>>,
       <<12540, 12542>>, <<40981, 40981>>, <<42232, 42237>>,
       <<42508, 42508>>, <<42607, 42610>>, <<42612, 42621>>,
       <<42623, 42623>>, <<42652, 42655>>, <<42736, 42737>>,
       <<42752, 42785>>, <<42864, 42864>>, <<42888, 42890>>,
       <<42994, 42996>>, <<43000, 43001>>, <<43010, 43010>>,
       <<43014, 43014>>, <<43019, 43019>>, <<43045, 43046>>,
       <<43052, 43052>>, <<43204, 43205>>, <<43232, 43249>>,
       <<43263, 43263>>, <<43302, 43309>>, <<43335, 43345>>,
       <<43392, 43394>>, <<43443, 43443>>, <<43446, 43449>>,
       <<43452, 43453>>, <<43471, 43471>>, <<43493, 43494>>,
       <<43561, 43566>>, <<43569, 43570>>, <<43573, 43574>>,
       <<43587, 43587>>, <<43596, 43596>>, <<43632, 43632>>,
       <<43644, 43644>>, <<43696, 43696>>, <<43698, 43700>>,
       <<43703, 43704>>, <<43710, 43711>>, <<43713, 43713>>,
       <<43741, 43741>>, <<43756, 43757>>, <<43763, 43764>>,
       <<43766, 43766>>, <<43867, 43871>>, <<43881, 43883>>,
       <<44005, 44005>>, <<44008, 44008>>, <<44013, 44013>>,
       <<64286, 64286>>, <<64434, 64450>>, <<65024, 65039>>,
       <<65043, 65043>>, <<65056, 65071>>, <<65106, 65106>>,
       <<65109, 65109>>, <<65279, 65279>>, <<65287, 65287>>,
       <<65294, 65294>>, <<65306, 65306>>, <<65342, 65342>>,
       <<65344, 65344>>, <<65392, 65392>>, <<65438, 65439>>,
       <<65507, 65507>>, <<65529, 65531>>, <<66045, 66045>>,
       <<66272, 66272>>, <<66422, 66426>>, <<67456, 67461>>,
       <<67463, 67504>>, <<67506, 67514>>, <<68097, 68099>>,
       <<68101, 68102>>, <<68108, 68111>>, <<68152, 68154>>,
       <<68159, 68159>>, <<68325, 68326>>, <<68900, 68903>>,
       <<69291, 69292>>, <<69446, 69456>>, <<69506, 69509>>,
       <<69633, 69633>>, <<69688, 69702>>, <<69744, 69744>>,
       <<69747, 69748>>, <<69759, 69761>>, <<69811, 69814>>,
       <<69817, 69818>>, <<69821, 69821>>, <<69826, 69826>>,
       <<69837, 69837>>, <<69888, 69890>>, <<69927, 69931>>,
       <<69933, 69940>>, <<70003, 70003>>, <<70016, 70017>>,
       <<70070, 70078>>, <<70089, 70092>>, <<70095, 70095>>,
       <<70191, 70193>>, <<70196, 70196>>, <<70198, 70199>>,
       <<70206, 70206>>, <<70367, 70367>>, <<70371, 70378>>,
       <<70400, 70401>>, <<70459, 70460>>, <<70464, 70464>>,
       <<70502, 70508>>, <<70512, 70516>>, <<70712, 70719>>,
       <<70722, 70724>>, <<70726, 70726>>, <<70750, 70750>>,
       <<70835, 70840>>, <<70842, 70842>>, <<70847, 70848>>,
       <<70850, 70851>>, <<71090, 71093>>, <<71100, 71101>>,
       <<71103, 71104>>, <<71132, 71133>>, <<71219, 71226>>,
       <<71229, 71229>>, <<71231, 71232>>, <<71339, 71339>>,
       <<71341, 71341>>, <<71344, 71349>>, <<71351, 71351>>,
       <<71453, 71455>>, <<71458, 71461>>, <<71463, 71467>>,
       <<71727, 71735>>, <<71737, 71738>>, <<71995, 71996>>,
       <<71998, 71998>>, <<72003, 72003>>, <<72148, 72151>>,
       <<72154, 72155>>, <<72160, 72160>>, <<72193, 72202>>,
       <<72243, 72248>>, <<72251, 72254>>, <<72263, 72263>>,
       <<72273, 72278>>, <<72281, 72283>>, <<72330, 72342>>,
       <<72344, 72345>>, <<72752, 72758>>, <<72760, 72765>>,
       <<72767, 72767>>, <<72850, 72871>>, <<72874, 72880>>,
       <<72882, 72883>>, <<72885, 72886>>, <<73009, 73014>>,
       <<73018, 73018>>, <<73020, 73021>>, <<73023, 73029>>,
       <<73031, 73031>>, <<73104, 73105>>, <<73109, 73109>>,
       <<73111, 73111>>, <<73459, 73460>>, <<78896, 78904>>,
       <<92912, 92916>>, <<92976, 92982>>, <<92992, 92995>>,
       <<94031, 94031>>, <<94095, 94111>>, <<94176, 94177>>,
       <<94179, 94180>>, <<110576, 110579>>, <<110581, 110587>>,
       <<110589, 110590>>, <<113821, 113822>>, <<113824, 113827>>,
       <<118528, 118573>>, <<118576, 118598>>, <<119143, 119145>>,
       <<119155, 119170>>, <<119173, 119179>>, <<119210, 119213>>,
       <<119362, 119364>>, <<121344, 121398>>, <<121403, 121452>>,
       <<121461, 121461>>, <<121476, 121476>>, <<121499, 121503>>,
       <<121505, 121519>>, <<122880, 122886>>, <<122888, 122904>>,
       <<122907, 122913>>, <<122915, 122916>>, <<122918, 122922>>,
       <<123184, 123197>>, <<123566, 123566>>, <<123628, 123631>>,
       <<125136, 125142>>, <<125252, 125259>>, <<127995, 127999>>,
       <<917505, 917505>>, <<917536, 917631>>, <<917760, 917999>> >>

InRanges(n, ranges) ==
    \E i \in 1..Len(ranges) : ranges[i][1] <= n /\ n <= ranges[i][2]

IsCased(n) == InRanges(n, CasedRanges)

IsCaseIgnorable(n) == InRanges(n, CaseIgnorableRanges)

InRun(n, run) == run[1] <= n /\ n <= run[2] /\ (n - run[1]) % run[3] = 0

\* The code of the lower case of the character of code n.
LowerCode(n) ==
    LET runs == {i \in 1..Len(LowerCaseRuns) : InRun(n, LowerCaseRuns[i])}
    IN  IF runs = {} THEN n
        ELSE n + LowerCaseRuns[CHOOSE i \in runs : TRUE][4]

\* c.lower() of one character: a string, of two characters for U+0130.  (An
\* ASCII character needs no look at the table, as in CPython.)
LowerChar(c) ==
    IF IsAscii(c)
    THEN (IF c \in AsciiUpperCase THEN <<Chr(Ord(c) + 32)>> ELSE <<c>>)
    ELSE LET n == Ord(c)
             lower == LowerCode(n)
         IN  IF n = 304 THEN <<"i", "\\u0307">>
             ELSE IF n = 931 THEN <<"\\u03c3">>
             ELSE IF lower = n THEN <<c>>
             ELSE <<Chr(lower)>>

\* The capital sigma at position i of s is a final one: going back over the
\* case-ignorable characters there is a cased character before it, and going
\* on over the case-ignorable characters there is no cased character after it.
FinalSigma(s, i) ==
    LET before == {j \in 1..(i - 1) : ~IsCaseIgnorable(Ord(s[j]))}
        after  == {j \in (i + 1)..Len(s) : ~IsCaseIgnorable(Ord(s[j]))}
    IN  /\ before # {}
        /\ IsCased(Ord(s[CHOOSE j \in before : \A k \in before : k <= j]))
        /\ \/ after = {}
           \/ ~IsCased(Ord(s[CHOOSE j \in after : \A k \in after : j <= k]))

\* The lower case of s from position i on.
RECURSIVE LowerFrom(_, _)
LowerFrom(s, i) ==
    IF i > Len(s) THEN <<>>
    ELSE (IF s[i] = "\\u03a3" /\ FinalSigma(s, i) THEN <<"\\u03c2">>
          ELSE LowerChar(s[i]))
         \o LowerFrom(s, i + 1)

\* s.lower()
Lower(s) == LowerFrom(s, 1)

\* The characters str.split() with no argument splits on, those c.isspace()
\* holds for.
IsSpace(c) ==
    c \in { " ", "\t", "\n", "\r", "\f", "\\x0b", "\\x1c", "\\x1d",
            "\\x1e", "\\x1f", "\\x85", "\\xa0", "\\u1680", "\\u2000",
            "\\u2001", "\\u2002", "\\u2003", "\\u2004", "\\u2005",
            "\\u2006", "\\u2007", "\\u2008", "\\u2009", "\\u200a",
            "\\u2028", "\\u2029", "\\u202f", "\\u205f", "\\u3000" }

\* The characters of s from position i on, as one TLA+ string.
RECURSIVE StrFrom(_, _)
StrFrom(s, i) == IF i > Len(s) THEN "" ELSE s[i] \o StrFrom(s, i + 1)

Str(s) == StrFrom(s, 1)

RECURSIVE SplitFrom(_, _, _)
\* The tokens of s from position i on, cur being the token under way.
SplitFrom(s, i, cur) ==
    IF i > Len(s) THEN (IF cur = <<>> THEN <<>> ELSE <<cur>>)
    ELSE IF IsSpace(s[i])
         THEN (IF cur = <<>> THEN <<>> ELSE <<cur>>) \o SplitFrom(s, i + 1, <<>>)
         ELSE SplitFrom(s, i + 1, Append(cur, s[i]))

\* s.split(): the maximal runs of non-whitespace characters, in order
Split(s) == SplitFrom(s, 1, <<>>)

\* The upper-case mapping of the same Unicode database, for the characters
\* upper() maps to one character: <<first, last, step, delta>> as above.
UpperCaseRuns ==
    << <<97, 122, 1, -32>>, <<181, 181, 1, 743>>, <<224, 246, 1, -32>>,
       <<248, 254, 1, -32>>, <<255, 255, 1, 121>>, <<257, 303, 2, -1>>,
       <<305, 305, 1, -232>>, <<307, 311, 2, -1>>, <<314, 328, 2, -1>>,
       <<331, 375, 2, -1>>, <<378, 382, 2, -1>>, <<383, 383, 1, -300>>,
       <<384, 384, 1, 195>>, <<387, 389, 2, -1>>, <<392, 392, 1, -1>>,
       <<396, 396, 1, -1>>, <<402, 402, 1, -1>>, <<405, 405, 1, 97>>,
       <<409, 409, 1, -1>>, <<410, 410, 1, 163>>, <<414, 414, 1, 130>>,
       <<417, 421, 2, -1>>, <<424, 424, 1, -1>>, <<429, 429, 1, -1>>,
       <<432, 432, 1, -1>>, <<436, 438, 2, -1>>, <<441, 441, 1, -1>>,
       <<445, 445, 1, -1>>, <<447, 447, 1, 56>>, <<453, 453, 1, -1>>,
       <<454, 454, 1, -2>>, <<456, 456, 1, -1>>, <<457, 457, 1, -2>>,
       <<459, 459, 1, -1>>, <<460, 460, 1, -2>>, <<462, 476, 2, -1>>,
       <<477, 477, 1, -79>>, <<479, 495, 2, -1>>, <<498, 498, 1, -1>>,
       <<499, 499, 1, -2>>, <<501, 501, 1, -1>>, <<505, 543, 2, -1>>,
       <<547, 563, 2, -1>>, <<572, 572, 1, -1>>, <<575, 576, 1, 10815>>,
       <<578, 578, 1, -1>>, <<583, 591, 2, -1>>, <<592, 592, 1, 10783>>,
       <<593, 593, 1, 10780>>, <<594, 594, 1, 10782>>, <<595, 595, 1, -210>>,
       <<596, 596, 1, -206>>, <<598, 599, 1, -205>>, <<601, 601, 1, -202>>,
       <<603, 603, 1, -203>>, <<604, 604, 1, 42319>>, <<608, 608, 1, -205>>,
       <<609, 609, 1, 42315>>, <<611, 611, 1, -207>>, <<613, 613, 1, 42280>>,
       <<614, 614, 1, 42308>>, <<616, 616, 1, -209>>, <<617, 617, 1, -211>>,
       <<618, 618, 1, 42308>>, <<619, 619, 1, 10743>>,
       <<620, 620, 1, 42305>>, <<623, 623, 1, -211>>, <<625, 625, 1, 10749>>,
       <<626, 626, 1, -213>>, <<629, 629, 1, -214>>, <<637, 637, 1, 10727>>,
       <<640, 640, 1, -218>>, <<642, 642, 1, 42307>>, <<643, 643, 1, -218>>,
       <<647, 647, 1, 42282>>, <<648, 648, 1, -218>>, <<649, 649, 1, -69>>,
       <<650, 651, 1, -217>>, <<652, 652, 1, -71>>, <<658, 658, 1, -219>>,
       <<669, 669, 1, 42261>>, <<670, 670, 1, 42258>>, <<837, 837, 1, 84>>,
       <<881, 883, 2, -1>>, <<887, 887, 1, -1>>, <<891, 893, 1, 130>>,
       <<940, 940, 1, -38>>, <<941, 943, 1, -37>>, <<945, 961, 1, -32>>,
       <<962, 962, 1, -31>>, <<963, 971, 1, -32>>, <<972, 972, 1, -64>>,
       <<973, 974, 1, -63>>, <<976, 976, 1, -62>>, <<977, 977, 1, -57>>,
       <<981, 981, 1, -47>>, <<982, 982, 1, -54>>, <<983, 983, 1, -8>>,
       <<985, 1007, 2, -1>>, <<1008, 1008, 1, -86>>, <<1009, 1009, 1, -80>>,
       <<1010, 1010, 1, 7>>, <<1011, 1011, 1, -116>>, <<1013, 1013, 1, -96>>,
       <<1016, 1016, 1, -1>>, <<1019, 1019, 1, -1>>, <<1072, 1103, 1, -32>>,
       <<1104, 1119, 1, -80>>, <<1121, 1153, 2, -1>>, <<1163, 1215, 2, -1>>,
       <<1218, 1230, 2, -1>>, <<1231, 1231, 1, -15>>, <<1233, 1327, 2, -1>>,
       <<1377, 1414, 1, -48>>, <<4304, 4346, 1, 3008>>,
       <<4349, 4351, 1, 3008>>, <<5112, 5117, 1, -8>>,
       <<7296, 7296, 1, -6254>>, <<7297, 7297, 1, -6253>>,
       <<7298, 7298, 1, -6244>>, <<7299, 7300, 1, -6242>>,
       <<7301, 7301, 1, -6243>>, <<7302, 7302, 1, -6236>>,
       <<7303, 7303, 1, -6181>>, <<7304, 7304, 1, 35266>>,
       <<7545, 7545, 1, 35332>>, <<7549, 7549, 1, 3814>>,
       <<7566, 7566, 1, 35384>>, <<7681, 7829, 2, -1>>,
       <<7835, 7835, 1, -59>>, <<7841, 7935, 2, -1>>, <<7936, 7943, 1, 8>>,
       <<7952, 7957, 1, 8>>, <<7968, 7975, 1, 8>>, <<7984, 7991, 1, 8>>,
       <<8000, 8005, 1, 8>>, <<8017, 8023, 2, 8>>, <<8032, 8039, 1, 8>>,
       <<8048, 8049, 1, 74>>, <<8050, 8053, 1, 86>>, <<8054, 8055, 1, 100>>,
       <<8056, 8057, 1, 128>>, <<8058, 8059, 1, 112>>,
       <<8060, 8061, 1, 126>>, <<8112, 8113, 1, 8>>,
       <<8126, 8126, 1, -7205>>, <<8144, 8145, 1, 8>>, <<8160, 8161, 1, 8>>,
       <<8165, 8165, 1, 7>>, <<8526, 8526, 1, -28>>, <<8560, 8575, 1, -16>>,
       <<8580, 8580, 1, -1>>, <<9424, 9449, 1, -26>>,
       <<11312, 11359, 1, -48>>, <<11361, 11361, 1, -1>>,
       <<11365, 11365, 1, -10795>>, <<11366, 11366, 1, -10792>>,
       <<11368, 11372, 2, -1>>, <<11379, 11379, 1, -1>>,
       <<11382, 11382, 1, -1>>, <<11393, 11491, 2, -1>>,
       <<11500, 11502, 2, -1>>, <<11507, 11507, 1, -1>>,
       <<11520, 11557, 1, -7264>>, <<11559, 11559, 1, -7264>>,
       <<11565, 11565, 1, -7264>>, <<42561, 42605, 2, -1>>,
       <<42625, 42651, 2, -1>>, <<42787, 42799, 2, -1>>,
       <<42803, 42863, 2, -1>>, <<42874, 42876, 2, -1>>,
       <<42879, 42887, 2, -1>>, <<42892, 42892, 1, -1>>,
       <<42897, 42899, 2, -1>>, <<42900, 42900, 1, 48>>,
       <<42903, 42921, 2, -1>>, <<42933, 42947, 2, -1>>,
       <<42952, 42954, 2, -1>>, <<42961, 42961, 1, -1>>,
       <<42967, 42969, 2, -1>>, <<42998, 42998, 1, -1>>,
       <<43859, 43859, 1, -928>>, <<43888, 43967, 1, -38864>>,
       <<65345, 65370, 1, -32>>, <<66600, 66639, 1, -40>>,
       <<66776, 66811, 1, -40>>, <<66967, 67003, 2, -39>>,
       <<66968, 66976, 2, -39>>, <<66980, 66992, 2, -39>>,
       <<66996, 67000, 2, -39>>, <<67004, 67004, 1, -39>>,
       <<68800, 68850, 1, -64>>, <<71872, 71903, 1, -32>>,
       <<93792, 93823, 1, -32>>, <<125218, 125251, 1, -34>> >>

\* The characters upper() maps to more than one: <<code, codes of the result>>.
UpperExpansions ==
    << <<223, <<83, 83>>>>, <<329, <<700, 78>>>>, <<496, <<74, 780>>>>,
       <<912, <<921, 776, 769>>>>, <<944, <<933, 776, 769>>>>,
       <<1415, <<1333, 1362>>>>, <<7830, <<72, 817>>>>,
       <<7831, <<84, 776>>>>, <<7832, <<87, 778>>>>, <<7833, <<89, 778>>>>,
       <<7834, <<65, 702>>>>, <<8016, <<933, 787>>>>,
       <<8018, <<933, 787, 768>>>>, <<8020, <<933, 787, 769>>>>,
       <<8022, <<933, 787, 834>>>>, <<8064, <<7944, 921>>>>,
       <<8065, <<7945, 921>>>>, <<8066, <<7946, 921>>>>,
       <<8067, <<7947, 921>>>>, <<8068, <<7948, 921>>>>,
       <<8069, <<7949, 921>>>>, <<8070, <<7950, 921>>>>,
       <<8071, <<7951, 921>>>>, <<8072, <<7944, 921>>>>,
       <<8073, <<7945, 921>>>>, <<8074, <<7946, 921>>>>,
       <<8075, <<7947, 921>>>>, <<8076, <<7948, 921>>>>,
       <<8077, <<7949, 921>>>>, <<8078, <<7950, 921>>>>,
       <<8079, <<7951, 921>>>>, <<8080, <<7976, 921>>>>,
       <<8081, <<7977, 921>>>>, <<8082, <<7978, 921>>>>,
       <<8083, <<7979, 921>>>>, <<8084, <<7980, 921>>>>,
       <<8085, <<7981, 921>>>>, <<8086, <<7982, 921>>>>,
       <<8087, <<7983, 921>>>>, <<8088, <<7976, 921>>>>,
       <<8089, <<7977, 921>>>>, <<8090, <<7978, 921>>>>,
       <<8091, <<7979, 921>>>>, <<8092, <<7980, 921>>>>,
       <<8093, <<7981, 921>>>>, <<8094, <<7982, 921>>>>,
       <<8095, <<7983, 921>>>>, <<8096, <<8040, 921>>>>,
       <<8097, <<8041, 921>>>>, <<8098, <<8042, 921>>>>,
       <<8099, <<8043, 921>>>>, <<8100, <<8044, 921>>>>,
       <<8101, <<8045, 921>>>>, <<8102, <<8046, 921>>>>,
       <<8103, <<8047, 921>>>>, <<8104, <<8040, 921>>>>,
       <<8105, <<8041, 921>>>>, <<8106, <<8042, 921>>>>,
       <<8107, <<8043, 921>>>>, <<8108, <<8044, 921>>>>,
       <<8109, <<8045, 921>>>>, <<8110, <<8046, 921>>>>,
       <<8111, <<8047, 921>>>>, <<8114, <<8122, 921>>>>,
       <<8115, <<913, 921>>>>, <<8116, <<902, 921>>>>,
       <<8118, <<913, 834>>>>, <<8119, <<913, 834, 921>>>>,
       <<8124, <<913, 921>>>>, <<8130, <<8138, 921>>>>,
       <<8131, <<919, 921>>>>, <<8132, <<905, 921>>>>,
       <<8134, <<919, 834>>>>, <<8135, <<919, 834, 921>>>>,
       <<8140, <<919, 921>>>>, <<8146, <<921, 776, 768>>>>,
       <<8147, <<921, 776, 769>>>>, <<8150, <<921, 834>>>>,
       <<8151, <<921, 776, 834>>>>, <<8162, <<933, 776, 768>>>>,
       <<8163, <<933, 776, 769>>>>, <<8164, <<929, 787>>>>,
       <<8166, <<933, 834>>>>, <<8167, <<933, 776, 834>>>>,
       <<8178, <<8186, 921>>>>, <<8179, <<937, 921>>>>,
       <<8180, <<911, 921>>>>, <<8182, <<937, 834>>>>,
       <<8183, <<937, 834, 921>>>>, <<8188, <<937, 921>>>>,
       <<64256, <<70, 70>>>>, <<64257, <<70, 73>>>>, <<64258, <<70, 76>>>>,
       <<64259, <<70, 70, 73>>>>, <<64260, <<70, 70, 76>>>>,
       <<64261, <<83, 84>>>>, <<64262, <<83, 84>>>>,
       <<64275, <<1348, 1350>>>>, <<64276, <<1348, 1333>>>>,
       <<64277, <<1348, 1339>>>>, <<64278, <<1358, 1350>>>>,
       <<64279, <<1348, 1341>>>> >>

\* c.upper() of one character: a string, of up to three characters.
UpperChar(c) ==
    LET n == Ord(c)
        expansions == {i \in 1..Len(UpperExpansions) : UpperExpansions[i][1] = n}
        runs == {i \in 1..Len(UpperCaseRuns) : InRun(n, UpperCaseRuns[i])}
    IN  IF expansions # {}
        THEN LET codes == UpperExpansions[CHOOSE i \in expansions : TRUE][2]
             IN  [k \in 1..Len(codes) |-> Chr(codes[k])]
        ELSE IF runs # {}
        THEN <<Chr(n + UpperCaseRuns[CHOOSE i \in runs : TRUE][4])>>
        ELSE <<c>>

\* The upper case of s from position i on.
RECURSIVE UpperFrom(_, _)
UpperFrom(s, i) ==
    IF i > Len(s) THEN <<>> ELSE UpperChar(s[i]) \o UpperFrom(s, i + 1)

\* s.upper()
Upper(s) == UpperFrom(s, 1)

\* s.strip(): s without the whitespace at its two ends, that is from its
\* first to its last character that is no whitespace.
Strip(s) ==
    LET kept == {i \in 1..Len(s) : ~IsSpace(s[i])}
    IN  IF kept = {} THEN <<>>
        ELSE SubSeq(s, CHOOSE i \in kept : \A j \in kept : i <= j,
                       CHOOSE i \in kept : \A j \in kept : j <= i)

(***************************************************************************)
(* categorize_question_topic                                               *)
(***************************************************************************)
\* TOPIC_KEYWORDS, in declaration order (a dict keeps insertion order).
TOPIC_KEYWORDS ==
    << [topic |-> "mathematics", keywords |->
          {"formula", "equation", "calculate", "derivative", "integral",
           "matrix", "algebra", "calculus", "probability"}],
       [topic |-> "circuits", keywords |->
          {"circuit", "voltage", "current", "resistance", "capacitor",
           "inductor", "impedance", "kcl", "kvl", "ohm"}],
       [topic |-> "signals", keywords |->
          {"signal", "frequency", "amplitude", "fourier", "filter",
           "modulation", "spectrum", "convolution", "sampling"}],
       [topic |-> "control", keywords |->
          {"control", "feedback", "stability", "response",
           "transfer function", "pid", "bode", "nyquist", "root locus"}],
       [topic |-> "digital", keywords |->
          {"digital", "logic", "binary", "gate", "flip-flop", "counter",
           "memory", "boolean", "multiplexer"}],
       [topic |-> "power", keywords |->
          {"power", "energy", "motor", "generator", "transformer",
           "transmission", "protection", "synchronous"}],
       [topic |-> "communication", keywords |->
          {"communication", "antenna", "modulation", "channel", "noise",
           "protocol", "coding", "multiplexing"}],
       [topic |-> "electromagnetics", keywords |->
          {"electromagnetic", "wave", "field", "maxwell",
           "transmission line", "waveguide", "antenna"}],
       [topic |-> "materials", keywords |->
          {"material", "semiconductor", "conductor", "dielectric",
           "crystal", "doping", "band gap"}],
       [topic |-> "programming", keywords |->
          {"algorithm", "data structure", "complexity", "sorting",
           "searching", "graph", "tree", "dynamic"}],
       [topic |-> "networks", keywords |->
          {"network", "protocol", "tcp", "ip", "routing", "switching",
           "osi", "ethernet"}],
       [topic |-> "databases", keywords |->
          {"database", "sql", "query", "normalization", "acid",
           "transaction", "index"}] >>

\* cache_key = hash(question_text + pdf_reference).  hash() of a str is
\* modelled as injective: the key is the concatenated text itself.
CacheKey(question_text, pdf_reference) == question_text \o pdf_reference

\* text_words = set((question_text + " " + pdf_reference).lower().split())
TextWords(question_text, pdf_reference) ==
    LET text_to_analyze ==
            Call("Lower", question_text \o <<" ">> \o pdf_reference, 0, 0, 0, 0)
        words == Split(text_to_analyze)
    IN  {Str(words[i]) : i \in 1..Len(words)}

\* score = len(keywords.intersection(text_words)) of the i-th topic
TopicScore(i, text_words) ==
    Cardinality(TOPIC_KEYWORDS[i].keywords \cap text_words)

\* max(topic_scores, key=topic_scores.get) if topic_scores else 'general':
\* topic_scores holds the topics scoring above zero in declaration order, and
\* max() returns the first key whose value no other key exceeds.
BestTopic(text_words) ==
    LET scored == {i \in 1..Len(TOPIC_KEYWORDS) : TopicScore(i, text_words) > 0}
    IN  IF scored = {} THEN "general"
        ELSE LET best == CHOOSE i \in scored :
                     \A j \in scored :
                        /\ TopicScore(j, text_words) <= TopicScore(i, text_words)
                        /\ (j < i => TopicScore(j, text_words)
                                        < TopicScore(i, text_words))
             IN  TOPIC_KEYWORDS[best].topic

\* The label computed on a cache miss.
ComputeTopic(question_text, pdf_reference) ==
    BestTopic(TextWords(question_text, pdf_reference))

\* if cache_key in self.topic_cache
CacheHit(cache, question_text, pdf_reference) ==
    CacheKey(question_text, pdf_reference) \in DOMAIN cache

\* The mutant of CacheAfter: a computed label is never stored.
CacheAfterNoStore(cache, question_text, pdf_reference) == cache

\* self.topic_cache after one categorize_question_topic call
CacheAfter(cache, question_text, pdf_reference) ==
    IF CacheHit(cache, question_text, pdf_reference) THEN cache
    ELSE (CacheKey(question_text, pdf_reference)
            :> ComputeTopic(question_text, pdf_reference)) @@ cache

\* the value one categorize_question_topic call returns
TopicReturned(cache, question_text, pdf_reference) ==
    IF CacheHit(cache, question_text, pdf_reference)
    THEN cache[CacheKey(question_text, pdf_reference)]
    ELSE ComputeTopic(question_text, pdf_reference)

(***************************************************************************)
(* calculate_marks_with_negative_grading                                   *)
(***************************************************************************)
\* The branch taken for one well-formed attempt: 'skipped' is tested first,
\* then 'correct', else 'incorrect'.
MarkingType(result) ==
    IF result.is_skipped THEN "skipped"
    ELSE IF result.is_correct THEN "correct"
    ELSE "incorrect"

\* The mutant of MarksEarned: the bonus threshold compared with <= instead of <.
MarksEarnedBonusAtThreshold(result) ==
    IF result.is_skipped THEN MARKING_SCHEME.skip_marks
    ELSE IF result.is_correct
         THEN IF result.time_taken.v <= MARKING_SCHEME.time_bonus_threshold
              THEN MARKING_SCHEME.correct_marks + TimeBonus
              ELSE MARKING_SCHEME.correct_marks
    ELSE MARKING_SCHEME.incorrect_penalty

\* marks_earned of one attempt whose time_taken converted to a float.
MarksEarned(result) ==
    IF result.is_skipped THEN MARKING_SCHEME.skip_marks
    ELSE IF result.is_correct
         THEN IF result.time_taken.v < MARKING_SCHEME.time_bonus_threshold
              THEN MARKING_SCHEME.correct_marks + TimeBonus
              ELSE MARKING_SCHEME.correct_marks
    ELSE MARKING_SCHEME.incorrect_penalty

\* The mutant of NegativeAdded: the penalty accumulated with its sign.
NegativeAddedSigned(result) ==
    IF MarkingType(result) = "incorrect" THEN MarksEarned(result) ELSE 0

\* What one attempt adds to negative_marks.
NegativeAdded(result) ==
    IF MarkingType(result) = "incorrect" THEN Abs(MarksEarned(result)) ELSE 0

\* What one attempt adds to positive_marks.
PositiveAdded(result) ==
    IF MarkingType(result) = "correct" THEN MarksEarned(result) ELSE 0

\* The mutant of QuestionMark: the entry keeps the unrounded third as 0.334.
QuestionMarkRoundedUp(result, i) ==
    [ question_number |-> IF "question_number" \in DOMAIN result
                          THEN result.question_number ELSE i,
      marks_earned    |-> IF MarkingType(result) = "incorrect"
                          THEN Round3(MarksEarned(result)) - 1
                          ELSE Round3(MarksEarned(result)),
      marking_type    |-> MarkingType(result),
      time_taken      |-> result.time_taken.v ]

\* The question_wise_marks entry of attempt number i:
\* result.get('question_number', i + 1) is the attempt's own number when it
\* carries one, else its position (i + 1 of the 0-based index).
QuestionMark(result, i) ==
    [ question_number |-> IF "question_number" \in DOMAIN result
                          THEN result.question_number ELSE i,
      marks_earned    |-> Round3(MarksEarned(result)),
      marking_type    |-> MarkingType(result),
      time_taken      |-> result.time_taken.v ]

\* The float of a mark value given in 1/MarkScale: 1.0, 0.1, 1/3.
MarkFloat(x) == FRat(x, MarkScale)

\* marks_earned of one attempt as the float the loop adds: 0.0, 1.0 + 0.1,
\* 1.0 or -1/3.
MarksEarnedFloat(result) ==
    IF result.is_skipped THEN MarkFloat(MARKING_SCHEME.skip_marks)
    ELSE IF result.is_correct
         THEN IF result.time_taken.v < MARKING_SCHEME.time_bonus_threshold
              THEN FAdd(MarkFloat(MARKING_SCHEME.correct_marks),
                        MarkFloat(TimeBonus))
              ELSE MarkFloat(MARKING_SCHEME.correct_marks)
    ELSE MarkFloat(MARKING_SCHEME.incorrect_penalty)

RECURSIVE TotalMarksFloat(_, _)
\* total_marks after the first n attempts, as the float the loop accumulates
\* in the order of the list.
TotalMarksFloat(results, n) ==
    IF n = 0 THEN FZero
    ELSE IF ~IsNumeric(results[n].time_taken)
    THEN TotalMarksFloat(results, n - 1)
    ELSE FAdd(TotalMarksFloat(results, n - 1), MarksEarnedFloat(results[n]))

RECURSIVE NegativeMarksFloat(_, _)
\* negative_marks after the first n attempts, as the float the loop
\* accumulates: abs(marks_earned) of each incorrect attempt.
NegativeMarksFloat(results, n) ==
    IF n = 0 THEN FZero
    ELSE IF IsNumeric(results[n].time_taken)
            /\ MarkingType(results[n]) = "incorrect"
    THEN FAdd(NegativeMarksFloat(results, n - 1),
              FAbs(MarksEarnedFloat(results[n])))
    ELSE NegativeMarksFloat(results, n - 1)

\* The accumulators before the loop.
MarkAcc0 ==
    [ total_marks |-> 0, positive_marks |-> 0, negative_marks |-> 0,
      question_wise_marks |-> <<>> ]

\* One iteration of the loop: float(time_taken) is evaluated first, and a
\* conversion error skips the attempt before anything is accumulated.
MarkStep(acc, result, i) ==
    IF ~IsNumeric(result.time_taken) THEN acc
    ELSE [ total_marks    |-> acc.total_marks + MarksEarned(result),
           positive_marks |-> acc.positive_marks + PositiveAdded(result),
           negative_marks |-> acc.negative_marks + NegativeAdded(result),
           question_wise_marks |->
               Append(acc.question_wise_marks, QuestionMark(result, i)) ]

RECURSIVE MarkLoop(_, _)
\* The accumulators after the first n attempts.
MarkLoop(results, n) ==
    IF n = 0 THEN MarkAcc0
    ELSE MarkStep(MarkLoop(results, n - 1), results[n], n)

\* The answer distribution counts: taken over every attempt of the list.
CorrectCount(results) ==
    Cardinality({i \in 1..Len(results) : results[i].is_correct})

\* A count of every attempt that is not correct, the skipped ones included
\* (used to show that the partition depends on the three counts).
IncorrectCountOfNotCorrect(results) ==
    Cardinality({i \in 1..Len(results) : ~results[i].is_correct})

IncorrectCount(results) ==
    Cardinality({i \in 1..Len(results) :
                    ~results[i].is_correct /\ ~results[i].is_skipped})

SkippedCount(results) ==
    Cardinality({i \in 1..Len(results) : results[i].is_skipped})

\* max_possible_marks = len(test_results) * correct_marks
MaxPossibleMarks(results) == Len(results) * MARKING_SCHEME.correct_marks

\* The mutant of NoResults: the guard never fires.
NoResultsNeverChecked(results) == FALSE

\* "if not test_results": the guard that opens calculate_marks_with_negative_
\* grading, analyze_strategy_effectiveness and analyze_performance.
NoResults(results) == Len(results) = 0

\* An exception leaving a call, as a return value of the model.
Raised(exc) == [raised |-> exc]

\* round(max(0, percentage_score), 2), where percentage_score is
\* (total_marks / max_possible_marks) * 100; total_float is the float
\* total_marks of the loop.
PercentageScore(total_marks, max_possible_marks, total_float) ==
    IF max_possible_marks > 0
    THEN Round2Of(Max(0, total_marks) * 100 * 100, max_possible_marks,
                  FMul(FDiv(total_float, MarkFloat(max_possible_marks)),
                       FInt(100)))
    ELSE 0

calculate_marks_with_negative_grading(results) ==
    IF NoResults(results) THEN [error |-> "No test results provided"]
    \* correct_count / len(test_results)
    ELSE IF Len(results) = 0 THEN Raised("ZeroDivisionError")
    ELSE
    LET acc == MarkLoop(results, Len(results))
        n   == Len(results)
        max_possible_marks == MaxPossibleMarks(results)
        correct_count   == CorrectCount(results)
        incorrect_count == IncorrectCount(results)
        skipped_count   == SkippedCount(results)
    IN  [ marking_summary |->
            [ total_marks_earned     |-> Round3(acc.total_marks),
              maximum_possible_marks |-> max_possible_marks,
              percentage_score       |->
                  PercentageScore(acc.total_marks, max_possible_marks,
                                  TotalMarksFloat(results, n)),
              positive_marks         |-> Round3(acc.positive_marks),
              negative_marks         |-> Round3(acc.negative_marks),
              net_score_impact       |-> Round3(acc.total_marks) ],
          answer_distribution |->
            [ correct_answers   |-> correct_count,
              incorrect_answers |-> incorrect_count,
              skipped_answers   |-> skipped_count,
              total_questions   |-> n ],
          efficiency_metrics |->
            [ accuracy_rate         |-> RoundPct(correct_count, n),
              attempt_rate          |-> RoundPct(n - skipped_count, n),
              correct_attempt_ratio |->
                  RoundPct(correct_count, Max(1, n - skipped_count)),
              \* round((negative_marks / max_possible_marks) * 100, 2)
              negative_impact       |->
                  Round2Of(acc.negative_marks * 100 * 100, max_possible_marks,
                           FMul(FDiv(NegativeMarksFloat(results, n),
                                     MarkFloat(max_possible_marks)),
                                FInt(100))) ],
          question_wise_marks |-> acc.question_wise_marks,
          marking_scheme_used |-> MARKING_SCHEME ]

(***************************************************************************)
(* analyze_strategy_effectiveness                                          *)
(***************************************************************************)
\* r.get('time_taken', 60) < 40 and r.get('time_taken', 0) > 50 raise
\* TypeError when time_taken is a string; the comprehensions visit every
\* attempt, so one such attempt makes the whole call raise.
ConfidenceRaises(results) ==
    \E i \in 1..Len(results) : ~IsNumeric(results[i].time_taken)

\* _calculate_confidence_threshold, for attempts with numeric times.
\* quick_accuracy > 0.8 is 10 * quick_correct > 8 * max(1, |quick|), and so on.
CalculateConfidenceThreshold(results) ==
    IF Len(results) = 0 THEN "medium_confidence"
    ELSE
    LET quick == {i \in 1..Len(results) : results[i].time_taken.v < 40}
        slow  == {i \in 1..Len(results) : results[i].time_taken.v > 50}
        quick_correct == Cardinality({i \in quick : results[i].is_correct})
        slow_correct  == Cardinality({i \in slow : results[i].is_correct})
        quick_n == Max(1, Cardinality(quick))
        slow_n  == Max(1, Cardinality(slow))
    IN  IF 10 * quick_correct > 8 * quick_n /\ 10 * slow_correct < 4 * slow_n
        THEN "trust_quick_instincts"
        ELSE IF 10 * slow_correct > 7 * slow_n
        THEN "take_time_when_needed"
        ELSE "medium_confidence"

\* A replay that gives the speed bonus of the marking engine (used to show
\* that the agreement of the figures depends on the replay leaving it out).
CurrentMarksWithSpeedBonus(results) ==
    CorrectCount(results) * MarkScale
        - IncorrectCount(results) * (MarkScale \div 3)
        + Cardinality({i \in 1..Len(results) :
                          /\ results[i].is_correct
                          /\ IsNumeric(results[i].time_taken)
                          /\ results[i].time_taken.v
                                < MARKING_SCHEME.time_bonus_threshold})
              * (MarkScale \div 10)

\* current_marks = correct * 1 + incorrect * (-1/3), in 1/MarkScale.
CurrentMarks(results) ==
    CorrectCount(results) * MarkScale
        - IncorrectCount(results) * (MarkScale \div 3)

\* conservative_marks = correct * 1
ConservativeMarks(results) == CorrectCount(results) * MarkScale

\* An aggressive replay that also takes back the penalty of every incorrect
\* attempt (used to show that the comparison of the strategies depends on
\* aggressive_marks).
AggressiveMarksWithoutPenalties(results) ==
    CurrentMarks(results) + IncorrectCount(results) * (MarkScale \div 3)

\* An aggressive replay that counts the quarter of the forced guesses that
\* come out right and forgets the penalty of the others (used to show that
\* the zero difference rests on the penalties of the wrong guesses).
AggressiveMarksWithoutGuessPenalty(results) ==
    CurrentMarks(results) + SkippedCount(results) * (MarkScale \div 4)

\* aggressive_marks: each skipped question adds 0.25 * 1 + 0.75 * (-1/3).
AggressiveMarks(results) ==
    IF SkippedCount(results) > 0
    THEN CurrentMarks(results)
            + SkippedCount(results) * (MarkScale \div 4)
            - ((SkippedCount(results) * ((3 * MarkScale) \div 4)) \div 3)
    ELSE CurrentMarks(results)

\* The classification with thresholds that may be reached (used to show that
\* the strategy type depends on the comparisons being strict).
StrategyTypeAtThreshold(results) ==
    IF 10 * IncorrectCount(results) >= 2 * Len(results)
       /\ 10 * SkippedCount(results) <= 2 * Len(results)
    THEN "more_conservative"
    ELSE IF 10 * SkippedCount(results) >= 4 * Len(results)
    THEN "more_aggressive"
    ELSE "balanced"

\* incorrect > total * 0.2 and skipped < total * 0.2, else skipped > total * 0.4
\* (exact comparisons; total * 0.2 and total * 0.4 are exact floats for the
\* totals within the bounds).
StrategyType(results) ==
    LET total == Len(results)
    IN  IF 10 * IncorrectCount(results) > 2 * total
           /\ 10 * SkippedCount(results) < 2 * total
        THEN "more_conservative"
        ELSE IF 10 * SkippedCount(results) > 4 * total
        THEN "more_aggressive"
        ELSE "balanced"

StrategyAdvice(strategy_type) ==
    CASE strategy_type = "more_conservative" ->
            "Consider skipping questions you're less confident about"
      [] strategy_type = "more_aggressive" ->
            "Try to attempt more questions with educated guessing"
      [] OTHER -> "Good balance between attempting and skipping"

analyze_strategy_effectiveness(results) ==
    IF NoResults(results) THEN [error |-> "No test results to analyze"]
    ELSE IF ConfidenceRaises(results) THEN Raised("TypeError")
    ELSE
    [ current_performance |->
        [ marks         |-> Round3(CurrentMarks(results)),
          strategy_type |-> StrategyType(results) ],
      alternative_strategies |->
        [ conservative |->
            [ marks      |-> Round3(ConservativeMarks(results)),
              difference |->
                  Round3(ConservativeMarks(results) - CurrentMarks(results)) ],
          aggressive |->
            [ marks      |-> Round3(AggressiveMarks(results)),
              difference |->
                  Round3(AggressiveMarks(results) - CurrentMarks(results)) ] ],
      recommendations |-> <<StrategyAdvice(StrategyType(results))>>,
      confidence_threshold |-> CalculateConfidenceThreshold(results) ]

(***************************************************************************)
(* analyze_performance                                                     *)
(***************************************************************************)
\* response_times: the times of the non-skipped attempts that convert to a
\* float within [0, 300], in input order.
RECURSIVE ResponseTimes(_)
ResponseTimes(results) ==
    IF results = <<>> THEN <<>>
    ELSE LET r == Head(results)
         IN  IF ~r.is_skipped /\ IsNumeric(r.time_taken)
                /\ 0 <= r.time_taken.v /\ r.time_taken.v <= 300
             THEN <<r.time_taken.v>> \o ResponseTimes(Tail(results))
             ELSE ResponseTimes(Tail(results))

\* self.topic_cache after _analyze_topics_with_negative_marking has classified
\* the first n attempts, in order.
RECURSIVE CacheAfterTopics(_, _, _)
CacheAfterTopics(cache, results, n) ==
    IF n = 0 THEN cache
    ELSE CacheAfter(CacheAfterTopics(cache, results, n - 1),
                    results[n].question, results[n].pdf_reference)

\* The label categorize_question_topic returns for attempt n when the
\* attempts are classified in order, starting from `cache`.
TopicOf(cache, results, n) ==
    TopicReturned(CacheAfterTopics(cache, results, n - 1),
                  results[n].question, results[n].pdf_reference)

\* The keys of topic_performance in insertion order: the labels in order of
\* first appearance.
RECURSIVE TopicOrder(_, _, _)
TopicOrder(cache, results, n) ==
    IF n = 0 THEN <<>>
    ELSE LET before == TopicOrder(cache, results, n - 1)
             topic  == TopicOf(cache, results, n)
         IN  IF \E k \in 1..Len(before) : before[k] = topic THEN before
             ELSE Append(before, topic)

\* (length-n prefix) the times appended to topic_performance[topic]['times']:
\* those of the non-skipped attempts of the topic whose time converts.
RECURSIVE TopicTimes(_, _, _, _)
TopicTimes(cache, results, topic, n) ==
    IF n = 0 THEN <<>>
    ELSE LET before == TopicTimes(cache, results, topic, n - 1)
             r == results[n]
         IN  IF TopicOf(cache, results, n) = topic /\ ~r.is_skipped
                /\ IsNumeric(r.time_taken)
             THEN Append(before, r.time_taken.v)
             ELSE before

RECURSIVE TopicMarksFloat(_, _, _, _)
\* (length-n prefix) topic_performance[topic]['marks'] as the float the loop
\* accumulates: += 1.0 for a correct attempt of the topic, -= 1/3 for an
\* incorrect one, in the order of the list.
TopicMarksFloat(cache, results, topic, n) ==
    IF n = 0 THEN FZero
    ELSE LET before == TopicMarksFloat(cache, results, topic, n - 1)
             r == results[n]
         IN  IF TopicOf(cache, results, n) = topic /\ ~r.is_skipped
                /\ IsNumeric(r.time_taken)
             THEN IF r.is_correct THEN FAdd(before, FInt(1))
                  ELSE FSub(before, FRat(1, 3))
             ELSE before

\* Buckets whose marks carry the speed bonus of the marking engine (used to
\* show that the bucket identities depend on the marks of the loop).
TopicDataWithSpeedBonus(cache, results, topic) ==
    LET members == {i \in 1..Len(results) : TopicOf(cache, results, i) = topic}
        answered == {i \in members : ~results[i].is_skipped
                                      /\ IsNumeric(results[i].time_taken)}
        correct == Cardinality({i \in answered : results[i].is_correct})
    IN  [ total   |-> Cardinality(members),
          skipped |-> Cardinality({i \in members : results[i].is_skipped}),
          correct |-> correct,
          times   |-> TopicTimes(cache, results, topic, Len(results)),
          marks   |-> correct * MarkScale
                        - (Cardinality(answered) - correct) * (MarkScale \div 3)
                        + Cardinality({i \in answered :
                                          /\ results[i].is_correct
                                          /\ results[i].time_taken.v
                                                < MARKING_SCHEME.time_bonus_threshold})
                              * (MarkScale \div 10) ]

\* topic_performance[topic] after the loop.  'total' is incremented before
\* the time is converted, so an attempt whose conversion fails is counted in
\* 'total' and in nothing else.
TopicData(cache, results, topic) ==
    LET members == {i \in 1..Len(results) : TopicOf(cache, results, i) = topic}
        answered == {i \in members : ~results[i].is_skipped
                                      /\ IsNumeric(results[i].time_taken)}
        correct == Cardinality({i \in answered : results[i].is_correct})
    IN  [ total   |-> Cardinality(members),
          skipped |-> Cardinality({i \in members : results[i].is_skipped}),
          correct |-> correct,
          times   |-> TopicTimes(cache, results, topic, Len(results)),
          marks   |-> correct * MarkScale
                        - (Cardinality(answered) - correct) * (MarkScale \div 3) ]

\* A labelling that tests the time rules before the score rules (used to
\* show that the order of the rules matters).
AssessTopicDifficultyTimeRulesFirst(topic_time, overall_avg, accuracy, marks, total_questions, marks_float) ==
    IF total_questions = 0 THEN "insufficient_data"
    ELSE
    LET score_percentage == Rat(marks * 100, total_questions * MarkScale)
    IN  IF RatLess(accuracy, Rat(50, 1))
           /\ RatLess(Rat(overall_avg.n * 13, overall_avg.d * 10), topic_time)
        THEN "time_consuming_risky"
        ELSE IF RatLess(Rat(70, 1), score_percentage)
                /\ RatLess(topic_time, Rat(overall_avg.n * 9, overall_avg.d * 10))
        THEN "comfortable_strength"
        ELSE IF RatLess(score_percentage, Rat(-10, 1)) THEN "very_difficult_avoid"
        ELSE IF RatLess(score_percentage, Rat(10, 1)) THEN "difficult_risky"
        ELSE "moderate"

\* _assess_topic_difficulty; topic_time, overall_avg and accuracy are
\* fractions (the floats nearest to them are passed), marks is in 1/MarkScale
\* and marks_float is the float passed for it.
AssessTopicDifficulty(topic_time, overall_avg, accuracy, marks, total_questions, marks_float) ==
    IF total_questions = 0 THEN "insufficient_data"
    ELSE
    LET score_percentage == Rat(marks * 100, total_questions * MarkScale)
        \* (marks / total_questions) * 100
        score_float == FMul(FDiv(marks_float, FInt(total_questions)), FInt(100))
        \* overall_avg * 1.3 and overall_avg * 0.9
        slow == Rat(overall_avg.n * 13, overall_avg.d * 10)
        slow_float == FMul(FloatOf(overall_avg), FRat(13, 10))
        quick == Rat(overall_avg.n * 9, overall_avg.d * 10)
        quick_float == FMul(FloatOf(overall_avg), FRat(9, 10))
    IN  IF FloatLess(score_percentage, Rat(-10, 1), score_float, FInt(-10))
        THEN "very_difficult_avoid"
        ELSE IF FloatLess(score_percentage, Rat(10, 1), score_float, FInt(10))
        THEN "difficult_risky"
        ELSE IF RatLess(accuracy, Rat(50, 1))
                /\ FloatLess(slow, topic_time, slow_float, FloatOf(topic_time))
        THEN "time_consuming_risky"
        ELSE IF FloatLess(Rat(70, 1), score_percentage, FInt(70), score_float)
                /\ FloatLess(topic_time, quick, FloatOf(topic_time), quick_float)
        THEN "comfortable_strength"
        ELSE "moderate"

\* topic_analysis[topic]; marks_float is the float data['marks'].
TopicMetrics(data, avg_time, marks_float) ==
    LET attempted == data.total - data.skipped
        accuracy_rate == IF attempted > 0 THEN Rat(data.correct * 100, attempted)
                         ELSE Rat(0, 1)
        avg_time_topic == MeanOrZero(data.times)
    IN  [ \* round(correct / attempted * 100, 2)
          accuracy_percentage  |->
              IF attempted > 0 THEN RoundPct(data.correct, attempted) ELSE 0,
          \* round(max(-100, (marks / total) * 100), 2)
          score_percentage     |->
              IF data.total > 0
              THEN Max(-100 * 100,
                       Round2Of(data.marks * 100 * 100, data.total * MarkScale,
                                FMul(FDiv(marks_float, FInt(data.total)),
                                     FInt(100))))
              ELSE 0,
          marks_earned         |-> Round3(data.marks),
          questions_total      |-> data.total,
          questions_attempted  |-> attempted,
          questions_skipped    |-> data.skipped,
          correct_answers      |-> data.correct,
          average_time_seconds |-> Round2(avg_time_topic),
          difficulty_assessment |->
              AssessTopicDifficulty(avg_time_topic, avg_time, accuracy_rate,
                                    data.marks, data.total, marks_float) ]

\* _analyze_topics_with_negative_marking: the topics in insertion order, each
\* with its metrics.
AnalyzeTopics(cache, results, avg_time) ==
    LET order == TopicOrder(cache, results, Len(results))
    IN  [k \in 1..Len(order) |->
            [ topic |-> order[k],
              data  |-> TopicMetrics(TopicData(cache, results, order[k]),
                                     avg_time,
                                     TopicMarksFloat(cache, results, order[k],
                                                     Len(results))) ]]

\* sorted(items, key=...)[:3] over (topic, data) pairs, keys[i] being the
\* integer key of items[i]: a stable sort by the key, then the first three.
SortedTop3(items, keys) ==
    LET n == Len(items)
        rank(i) == Cardinality({j \in 1..n :
                        \/ keys[j] < keys[i]
                        \/ keys[j] = keys[i] /\ j < i}) + 1
    IN  [r \in 1..Min(3, n) |-> items[CHOOSE i \in 1..n : rank(i) = r]]

\* The (topic, data) pairs with questions_attempted > 0.
AttemptedTopics(topic_analysis) ==
    LET Attempted(x) == x.data.questions_attempted > 0
    IN  SelectSeq(topic_analysis, Attempted)

\* weak_topics: ascending by score_percentage, first three.
WeakTopics(topic_analysis) ==
    LET items == AttemptedTopics(topic_analysis)
    IN  SortedTop3(items,
                   [i \in 1..Len(items) |-> items[i].data.score_percentage])

\* time_consuming_topics: descending by average_time_seconds (reverse=True
\* keeps the order of equal keys), first three.
TimeConsumingTopics(topic_analysis) ==
    LET items == AttemptedTopics(topic_analysis)
    IN  SortedTop3(items,
                   [i \in 1..Len(items) |-> -items[i].data.average_time_seconds])

(***************************************************************************)
(* _analyze_time_trend and _analyze_accuracy_trend                         *)
(***************************************************************************)
\* A filter that keeps the skipped attempts too (used to show that the
\* properties of the trends depend on the filter).
NonSkippedKeepingSkipped(results) == results

\* non_skipped = [r for r in results if not r.get('is_skipped', False)]
NonSkipped(results) ==
    LET Kept(r) == ~r.is_skipped
    IN  SelectSeq(results, Kept)

\* third = len(non_skipped) // 3
Third(non_skipped) == Len(non_skipped) \div 3

\* first_third = non_skipped[:third]
FirstThird(non_skipped) == SubSeq(non_skipped, 1, Third(non_skipped))

\* The third that follows the first one (used to show that the trends depend
\* on the last third being taken from the end).
LastThirdAfterFirst(non_skipped) ==
    SubSeq(non_skipped, Third(non_skipped) + 1, 2 * Third(non_skipped))

\* last_third = non_skipped[-third:]
LastThird(non_skipped) ==
    SubSeq(non_skipped, Len(non_skipped) - Third(non_skipped) + 1,
           Len(non_skipped))

TimesOf(attempts) == [i \in 1..Len(attempts) |-> attempts[i].time_taken.v]

\* Labels whose thresholds include the bounds themselves (used to show that
\* the comparisons of the time trend are strict).
TimeTrendLabelAtThreshold(change, change_float) ==
    IF ~RatLess(Rat(-15, 1), change) THEN "significantly_faster"
    ELSE IF ~RatLess(Rat(-5, 1), change) THEN "getting_faster"
    ELSE IF ~RatLess(change, Rat(15, 1)) THEN "significantly_slower"
    ELSE IF ~RatLess(change, Rat(5, 1)) THEN "getting_slower"
    ELSE "consistent"

\* The trend label of a percent change: its exact value as a fraction, and
\* the float change_percentage.
TimeTrendLabel(change, change_float) ==
    IF FloatLess(change, Rat(-15, 1), change_float, FInt(-15))
    THEN "significantly_faster"
    ELSE IF FloatLess(change, Rat(-5, 1), change_float, FInt(-5))
    THEN "getting_faster"
    ELSE IF FloatLess(Rat(15, 1), change, FInt(15), change_float)
    THEN "significantly_slower"
    ELSE IF FloatLess(Rat(5, 1), change, FInt(5), change_float)
    THEN "getting_slower"
    ELSE "consistent"

analyze_time_trend(results) ==
    LET non_skipped == NonSkipped(results)
    IN  IF Len(non_skipped) < 3
        THEN [ trend |-> "insufficient_data", confidence |-> "low" ]
        \* float(time_taken) of an attempt of either third raises ValueError,
        \* caught by the function's own handler
        ELSE IF \E i \in 1..Third(non_skipped) :
                    \/ ~IsNumeric(FirstThird(non_skipped)[i].time_taken)
                    \/ ~IsNumeric(LastThird(non_skipped)[i].time_taken)
        THEN [ trend |-> "analysis_failed" ]
        ELSE
        LET avg_first == MeanOrZero(TimesOf(FirstThird(non_skipped)))
            avg_last  == MeanOrZero(TimesOf(LastThird(non_skipped)))
            \* ((avg_last - avg_first) / avg_first) * 100 if avg_first > 0 else 0
            change_percentage ==
                IF avg_first.n > 0
                THEN Rat((avg_last.n * avg_first.d - avg_first.n * avg_last.d) * 100,
                         avg_last.d * avg_first.n)
                ELSE Rat(0, 1)
            change_float ==
                IF avg_first.n > 0
                THEN FMul(FDiv(FSub(FloatOf(avg_last), FloatOf(avg_first)),
                               FloatOf(avg_first)),
                          FInt(100))
                ELSE FZero
        IN  [ trend |-> TimeTrendLabel(change_percentage, change_float),
              change_percentage    |->
                  Round2Of(change_percentage.n * 100, change_percentage.d,
                           change_float),
              first_third_avg_time |-> Round2(avg_first),
              last_third_avg_time  |-> Round2(avg_last),
              \* "high" if abs(change_percentage) > 10 else "medium"
              confidence |->
                  IF FloatLess(Rat(10, 1), change_percentage,
                               FInt(10), change_float)
                     \/ FloatLess(change_percentage, Rat(-10, 1),
                                  change_float, FInt(-10))
                  THEN "high" ELSE "medium" ]

\* The trend label of a change in percentage points: its exact value as a
\* fraction, and the float change.
AccuracyTrendLabel(change, change_float) ==
    IF FloatLess(Rat(20, 1), change, FInt(20), change_float)
    THEN "significantly_improving"
    ELSE IF FloatLess(Rat(10, 1), change, FInt(10), change_float)
    THEN "improving"
    ELSE IF FloatLess(change, Rat(-20, 1), change_float, FInt(-20))
    THEN "significantly_declining"
    ELSE IF FloatLess(change, Rat(-10, 1), change_float, FInt(-10))
    THEN "declining"
    ELSE "stable"

\* sum(1 for r in attempts if r is correct) / len(attempts) * 100, as a float
AccuracyFloat(correct, count) ==
    FMul(FDiv(FInt(correct), FInt(count)), FInt(100))

CorrectIn(attempts) ==
    Cardinality({i \in 1..Len(attempts) : attempts[i].is_correct})

analyze_accuracy_trend(results) ==
    LET non_skipped == NonSkipped(results)
    IN  IF Len(non_skipped) < 3
        THEN [ trend |-> "insufficient_data" ]
        ELSE
        LET third == Third(non_skipped)
            acc_first == Rat(CorrectIn(FirstThird(non_skipped)) * 100, third)
            acc_last  == Rat(CorrectIn(LastThird(non_skipped)) * 100, third)
            change == Rat(acc_last.n - acc_first.n, third)
            \* acc_last - acc_first
            change_float ==
                FSub(AccuracyFloat(CorrectIn(LastThird(non_skipped)), third),
                     AccuracyFloat(CorrectIn(FirstThird(non_skipped)), third))
        IN  [ trend |-> AccuracyTrendLabel(change, change_float),
              change_percentage    |->
                  Round2Of(change.n * 100, change.d, change_float),
              first_third_accuracy |->
                  RoundPct(CorrectIn(FirstThird(non_skipped)), third),
              last_third_accuracy  |->
                  RoundPct(CorrectIn(LastThird(non_skipped)), third) ]

(***************************************************************************)
(* _generate_comprehensive_recommendations                                 *)
(*                                                                         *)
(* performance_score is a percentage in hundredths, avg_time a fraction.   *)
(***************************************************************************)
\* int(x) of a fraction n / d: truncation towards zero
Trunc(n, d) == IF n >= 0 THEN n \div d ELSE -((-n) \div d)

\* The 'next_difficulty_level' chosen from the score, the average time and
\* attempt_rate = non-skipped / total (a fraction of 1).
NextDifficultyLevel(performance_score, avg_time, attempt_rate) ==
    IF performance_score >= 75 * 100 /\ RatLess(avg_time, Rat(45, 1))
       /\ RatLess(Rat(8, 10), attempt_rate)
    THEN "advanced"
    ELSE IF performance_score >= 50 * 100 /\ RatLess(Rat(6, 10), attempt_rate)
    THEN "medium"
    ELSE "easy"

\* One entry of 'priority_focus_areas'.
FocusArea(item) ==
    LET score == item.data.score_percentage
    IN  [ topic |-> item.topic,
          score_percentage |-> score,
          priority_level |-> IF score < 20 * 100 THEN "high" ELSE "medium",
          \* max(2, min(10, int(8 - score_percentage / 10)))
          recommended_study_hours |->
              Max(2, Min(10, Trunc(8 * 1000 - score, 1000))),
          focus_area |-> IF score < 0 THEN "conceptual_understanding"
                         ELSE "practice_and_speed" ]

\* The whole body runs inside the method's own try: with an empty list
\* len(test_results) is 0, the division of line 640 raises ZeroDivisionError
\* and the handler of lines 719-721 returns the error object.
generate_comprehensive_recommendations(performance_score, topic_analysis, avg_time, results, strategy_analysis) ==
    IF Len(results) = 0
    THEN [error |-> "Failed to generate recommendations"]
    ELSE
    LET attempt_rate == Rat(Len(NonSkipped(results)), Len(results))
        weak_topics == WeakTopics(topic_analysis)
        incorrect_rate == Rat(IncorrectCount(results), Len(results))
    IN  [ next_difficulty_level |->
              NextDifficultyLevel(performance_score, avg_time, attempt_rate),
          \* strategy_analysis.get('recommendations', [])
          negative_marking_strategy |->
              IF "recommendations" \in DOMAIN strategy_analysis
              THEN strategy_analysis.recommendations ELSE <<>>,
          priority_focus_areas |->
              [k \in 1..Len(weak_topics) |-> FocusArea(weak_topics[k])],
          time_management_advice |->
              IF RatLess(Rat(50, 1), avg_time)
              THEN << "Practice time-bound problem solving daily",
                      "Learn elimination techniques for multiple choice questions",
                      "Set target time of 45 seconds per question for practice" >>
              ELSE <<>>,
          risk_management |->
              IF RatLess(Rat(3, 10), incorrect_rate)
              THEN << "High negative marking impact - practice confidence assessment",
                      "Learn to quickly identify questions outside your comfort zone",
                      "Develop systematic elimination strategies" >>
              ELSE <<>>,
          study_strategy |->
              IF performance_score < 50 * 100
              THEN << "Focus on fundamental concept building",
                      "Solve topic-wise questions before attempting mixed tests",
                      "Create concept summary sheets for quick revision" >>
              ELSE << "Focus on advanced problem-solving techniques",
                      "Practice full-length mock tests regularly",
                      "Analyze and learn from mistake patterns" >>,
          \* the topic named by the one immediate action, if any
          immediate_actions |->
              IF Len(weak_topics) > 0 THEN <<weak_topics[1].topic>> ELSE <<>>,
          \* target_score = min(90, performance_score + 20) and
          \* target_time = max(35, avg_time - 10), the numbers of the goals
          long_term_goals |->
              [ target_score |-> Min(90 * 100, performance_score + 20 * 100),
                target_time  |->
                    IF RatLess(Rat(45, 1), avg_time)
                    THEN Rat(avg_time.n - 10 * avg_time.d, avg_time.d)
                    ELSE Rat(35, 1) ] ]

(***************************************************************************)
(* _calculate_comprehensive_grade and _assess_gate_readiness               *)
(*                                                                         *)
(* Scores and the efficiency metrics are percentages in hundredths;        *)
(* avg_time is a fraction.                                                 *)
(***************************************************************************)
StrategyPenalty(negative_impact) ==
    IF negative_impact > 15 * 100 THEN -10
    ELSE IF negative_impact > 10 * 100 THEN -5
    ELSE 0

AttemptBonus(attempt_rate, base_score) ==
    IF attempt_rate > 85 * 100 /\ base_score > 60 * 100 THEN 5
    ELSE IF attempt_rate < 60 * 100 THEN -5
    ELSE 0

TimeAdjustment(avg_time) ==
    IF RatLess(avg_time, Rat(35, 1)) THEN 3
    ELSE IF RatLess(Rat(55, 1), avg_time) THEN -3
    ELSE 0

\* The sum of base score and adjustments without the final clamp (used to show
\* that the range of the score depends on the clamp).
FinalScoreUnclamped(score_percentage, avg_time, marking_analysis) ==
    Max(0, score_percentage)
        + 100 * ( StrategyPenalty(marking_analysis.efficiency_metrics.negative_impact)
                  + AttemptBonus(marking_analysis.efficiency_metrics.attempt_rate,
                                 Max(0, score_percentage))
                  + TimeAdjustment(avg_time) )

\* final_score = max(0, min(100, base_score + the three adjustments))
FinalScore(score_percentage, avg_time, marking_analysis) ==
    LET base_score == Max(0, score_percentage)
        negative_impact == marking_analysis.efficiency_metrics.negative_impact
        attempt_rate    == marking_analysis.efficiency_metrics.attempt_rate
    IN  Max(0, Min(100 * 100,
            base_score + 100 * ( StrategyPenalty(negative_impact)
                                 + AttemptBonus(attempt_rate, base_score)
                                 + TimeAdjustment(avg_time) )))

\* final_score as the float the function computes: base_score, the float of
\* the rounded percentage it is given, plus the three adjustments one after
\* the other, then min(100, .) and max(0, .).
FinalScoreFloat(score_percentage, avg_time, marking_analysis) ==
    LET base_score == Max(0, score_percentage)
        negative_impact == marking_analysis.efficiency_metrics.negative_impact
        attempt_rate    == marking_analysis.efficiency_metrics.attempt_rate
        sum == FAdd(FAdd(FAdd(FloatOf(Rat(base_score, 100)),
                              FInt(StrategyPenalty(negative_impact))),
                         FInt(AttemptBonus(attempt_rate, base_score))),
                    FInt(TimeAdjustment(avg_time)))
        capped == IF FLess(sum, FInt(100)) THEN sum ELSE FInt(100)
    IN  IF FLess(FZero, capped) THEN capped ELSE FZero

\* Grade thresholds that must be exceeded rather than reached (used to show
\* that the grade boundaries depend on the comparisons).
LetterGradeAboveThreshold(final_score) ==
    IF final_score > 85 * 100 THEN "A+"
    ELSE IF final_score > 75 * 100 THEN "A"
    ELSE IF final_score > 65 * 100 THEN "B+"
    ELSE IF final_score > 50 * 100 THEN "B"
    ELSE IF final_score > 35 * 100 THEN "C"
    ELSE "D"

LetterGrade(final_score) ==
    IF final_score >= 85 * 100 THEN "A+"
    ELSE IF final_score >= 75 * 100 THEN "A"
    ELSE IF final_score >= 65 * 100 THEN "B+"
    ELSE IF final_score >= 50 * 100 THEN "B"
    ELSE IF final_score >= 35 * 100 THEN "C"
    ELSE "D"

PerformanceLevel(grade) ==
    CASE grade = "A+" -> "Excellent - GATE Ready"
      [] grade = "A"  -> "Very Good - Strong GATE Potential"
      [] grade = "B+" -> "Good - Focused Improvement Needed"
      [] grade = "B"  -> "Average - Significant Preparation Required"
      [] grade = "C"  -> "Below Average - Extensive Preparation Needed"
      [] OTHER        -> "Poor - Fundamental Revision Required"

\* The readiness rules with 'needs_improvement' tried first (used to show
\* that the tier depends on the order of the rules).
ReadinessLevelLooseRuleFirst(final_score, attempt_rate, correct_attempt_ratio, avg_time) ==
    IF final_score >= 45 * 100 /\ attempt_rate > 60 * 100
    THEN "needs_improvement"
    ELSE IF final_score >= 75 * 100 /\ attempt_rate > 80 * 100
            /\ correct_attempt_ratio > 70 * 100 /\ RatLess(avg_time, Rat(50, 1))
    THEN "ready"
    ELSE IF final_score >= 60 * 100 /\ attempt_rate > 70 * 100
            /\ correct_attempt_ratio > 60 * 100
    THEN "almost_ready"
    ELSE "significant_preparation_needed"

\* Tiers decided by the rates and the time alone (used to show that the
\* agreement of tier and grade rests on the score bound of each tier).
ReadinessLevelIgnoringScore(final_score, attempt_rate, correct_attempt_ratio, avg_time) ==
    IF attempt_rate > 80 * 100
       /\ correct_attempt_ratio > 70 * 100 /\ RatLess(avg_time, Rat(50, 1))
    THEN "ready"
    ELSE IF attempt_rate > 70 * 100 /\ correct_attempt_ratio > 60 * 100
    THEN "almost_ready"
    ELSE IF attempt_rate > 60 * 100
    THEN "needs_improvement"
    ELSE "significant_preparation_needed"

ReadinessLevel(final_score, attempt_rate, correct_attempt_ratio, avg_time) ==
    IF final_score >= 75 * 100 /\ attempt_rate > 80 * 100
       /\ correct_attempt_ratio > 70 * 100 /\ RatLess(avg_time, Rat(50, 1))
    THEN "ready"
    ELSE IF final_score >= 60 * 100 /\ attempt_rate > 70 * 100
            /\ correct_attempt_ratio > 60 * 100
    THEN "almost_ready"
    ELSE IF final_score >= 45 * 100 /\ attempt_rate > 60 * 100
    THEN "needs_improvement"
    ELSE "significant_preparation_needed"

\* round(min(cap, final_score * factor), 2), in hundredths; final_score is
\* in hundredths and final_float is the float passed for it.
ConfidenceScore(readiness_level, final_score, final_float) ==
    CASE readiness_level = "ready" ->
            Min(95 * 100, Round2Of(final_score * 11, 10,
                                   FMul(final_float, FRat(11, 10))))
      [] readiness_level = "almost_ready" -> Min(85 * 100, final_score)
      [] readiness_level = "needs_improvement" ->
            Min(75 * 100, Round2Of(final_score * 9, 10,
                                   FMul(final_float, FRat(9, 10))))
      [] OTHER -> Min(60 * 100, Round2Of(final_score * 8, 10,
                                         FMul(final_float, FRat(8, 10))))

PreparationTime(readiness_level) ==
    CASE readiness_level = "ready" ->
            "1-2 months of focused practice and mock tests"
      [] readiness_level = "almost_ready" ->
            "3-4 months of structured preparation"
      [] readiness_level = "needs_improvement" ->
            "6-8 months of comprehensive preparation"
      [] OTHER -> "12+ months of intensive preparation required"

\* _identify_strengths, as the set of observations made
IdentifyStrengths(marking_analysis) ==
    LET efficiency == marking_analysis.efficiency_metrics
    IN  (IF efficiency.attempt_rate > 80 * 100
         THEN {"Good attempt rate - not overly cautious"} ELSE {})
        \cup (IF efficiency.correct_attempt_ratio > 70 * 100
              THEN {"High accuracy on attempted questions"} ELSE {})
        \cup (IF efficiency.negative_impact < 10 * 100
              THEN {"Effective negative marking management"} ELSE {})

\* _identify_gaps, as the set of observations made
IdentifyGaps(marking_analysis) ==
    LET efficiency == marking_analysis.efficiency_metrics
    IN  (IF efficiency.negative_impact > 15 * 100
         THEN {"High negative marking impact"} ELSE {})
        \cup (IF efficiency.attempt_rate < 60 * 100
              THEN {"Low attempt rate - too cautious"} ELSE {})
        \cup (IF efficiency.correct_attempt_ratio < 50 * 100
              THEN {"Low accuracy on attempted questions"} ELSE {})

\* _assess_gate_readiness; final_score is in hundredths and final_float is
\* the float passed for it.
assess_gate_readiness(final_score, marking_analysis, avg_time, final_float) ==
    LET attempt_rate == marking_analysis.efficiency_metrics.attempt_rate
        correct_attempt_ratio ==
            marking_analysis.efficiency_metrics.correct_attempt_ratio
        readiness_level ==
            ReadinessLevel(final_score, attempt_rate, correct_attempt_ratio,
                           avg_time)
    IN  [ readiness_level  |-> readiness_level,
          estimated_preparation_time |-> PreparationTime(readiness_level),
          confidence_score |->
              ConfidenceScore(readiness_level, final_score, final_float),
          key_strengths    |-> IdentifyStrengths(marking_analysis),
          critical_gaps    |-> IdentifyGaps(marking_analysis) ]

calculate_comprehensive_grade(score_percentage, avg_time, skipped_questions, total_questions, marking_analysis) ==
    LET base_score  == Max(0, score_percentage)
        final_score == FinalScore(score_percentage, avg_time, marking_analysis)
        efficiency  == marking_analysis.efficiency_metrics
    IN  [ letter_grade      |-> LetterGrade(final_score),
          performance_level |-> PerformanceLevel(LetterGrade(final_score)),
          overall_score     |-> final_score,
          gate_readiness    |->
              assess_gate_readiness(
                  final_score, marking_analysis, avg_time,
                  FinalScoreFloat(score_percentage, avg_time, marking_analysis)),
          score_components  |->
            [ base_score |-> base_score,
              strategy_adjustment |-> StrategyPenalty(efficiency.negative_impact),
              attempt_rate_adjustment |->
                  AttemptBonus(efficiency.attempt_rate, base_score),
              time_management_adjustment |-> TimeAdjustment(avg_time),
              negative_marking_impact |-> efficiency.negative_impact ] ]

\* How far analyze_performance gets: it returns at its own guard
\* ("no_results"), hands back the marking engine's error object
\* ("marking_error"), is cut short by an exception that reaches its outer
\* handler ("exception"), or builds the report ("report").  The marking
\* engine and the strategy evaluator are called without a handler of their own.
AnalysisOutcome(results) ==
    IF NoResults(results) THEN "no_results"
    ELSE IF "raised" \in DOMAIN Call("calculate_marks_with_negative_grading",
                                     results, 0, 0, 0, 0)
    THEN "exception"
    ELSE IF "error" \in DOMAIN Call("calculate_marks_with_negative_grading",
                                    results, 0, 0, 0, 0)
    THEN "marking_error"
    ELSE IF "raised" \in DOMAIN analyze_strategy_effectiveness(results)
    THEN "exception"
    ELSE "report"

\* strategy_analysis as analyze_performance keeps it: an error object of the
\* evaluator is replaced by {'error': 'Strategy analysis failed'}.
StrategySection(results) ==
    IF "error" \in DOMAIN analyze_strategy_effectiveness(results)
    THEN [error |-> "Strategy analysis failed"]
    ELSE analyze_strategy_effectiveness(results)

\* The report of analyze_performance.  time_analysis.consistency_score
\* (_calculate_consistency_score, a standard deviation) is left out of the
\* record: it needs a square root, and no other field is computed from it.
analyze_performance(cache, results) ==
    IF AnalysisOutcome(results) = "no_results"
    THEN [error |-> "No test results to analyze"]
    ELSE IF AnalysisOutcome(results) = "marking_error"
    THEN Call("calculate_marks_with_negative_grading", results, 0, 0, 0, 0)
    \* the outer handler: {"error": f"Analysis failed: {str(e)}"}
    ELSE IF AnalysisOutcome(results) = "exception"
    THEN [error |-> "Analysis failed"]
    ELSE
    LET marking_analysis == Call("calculate_marks_with_negative_grading",
                                 results, 0, 0, 0, 0)
        strategy_analysis == StrategySection(results)
        total_questions   == Len(results)
        correct_answers   == marking_analysis.answer_distribution.correct_answers
        skipped_questions == marking_analysis.answer_distribution.skipped_answers
        performance_score == marking_analysis.marking_summary.percentage_score
        response_times    == ResponseTimes(results)
        avg_time          == MeanOrZero(response_times)
        median_time       == MedianOrZero(response_times)
        topic_analysis    == Call("AnalyzeTopics", cache, results, avg_time,
                                  0, 0)
    IN  [ test_metadata |->
            [ total_duration_seconds |-> SeqSum(response_times),
              negative_marking_enabled |-> TRUE,
              analysis_version |-> "3.0" ],
          negative_marking_analysis |-> marking_analysis,
          strategy_analysis |-> strategy_analysis,
          overall_performance |->
            [ total_questions     |-> total_questions,
              questions_attempted |-> total_questions - skipped_questions,
              questions_skipped   |-> skipped_questions,
              correct_answers     |-> correct_answers,
              incorrect_answers   |->
                  total_questions - correct_answers - skipped_questions,
              accuracy_percentage |-> RoundPct(correct_answers, total_questions),
              score_percentage    |-> performance_score,
              marks_earned        |->
                  marking_analysis.marking_summary.total_marks_earned,
              maximum_possible_marks |->
                  marking_analysis.marking_summary.maximum_possible_marks,
              average_time_per_question_seconds |-> Round2(avg_time),
              median_time_per_question_seconds  |-> Round2(median_time),
              total_time_spent_seconds |-> SeqSum(response_times) * 100 ],
          topic_wise_analysis |-> topic_analysis,
          problem_areas |->
            [ weakest_topics |-> WeakTopics(topic_analysis),
              most_time_consuming_topics |-> TimeConsumingTopics(topic_analysis) ],
          performance_trends |->
            [ time_management_trend |->
                  Call("analyze_time_trend", results, 0, 0, 0, 0),
              accuracy_trend |->
                  Call("analyze_accuracy_trend", results, 0, 0, 0, 0) ],
          recommendations |->
              generate_comprehensive_recommendations(
                  performance_score, topic_analysis, avg_time, results,
                  strategy_analysis),
          grade_assessment |->
              calculate_comprehensive_grade(
                  performance_score, avg_time, skipped_questions,
                  total_questions, marking_analysis) ]

\* self.topic_cache after analyze_performance: the topic analysis runs only
\* when nothing before it returned or raised.
CacheAfterAnalysis(cache, results) ==
    IF AnalysisOutcome(results) # "report" THEN cache
    ELSE CacheAfterTopics(cache, results, Len(results))

(***************************************************************************)
(* Inputs                                                                  *)
(***************************************************************************)
\* The longest attempt list drawn.
MaxAttempts == 3

\* The number of classifier calls followed.
MaxCalls == 3

\* "sql", the question text of the attempts drawn for marking
SqlText == <<"s", "q", "l">>

\* The time_taken values attempts are drawn with: under the bonus threshold,
\* at it, and a string that is no number.
TimeValues == {Num(20), Num(MARKING_SCHEME.time_bonus_threshold), NotANumber}

Attempts ==
    [ is_correct : BOOLEAN, is_skipped : BOOLEAN, time_taken : TimeValues,
      question : {SqlText}, pdf_reference : {<<>>} ]

AttemptLists == UNION {[1..n -> Attempts] : n \in 0..MaxAttempts}

\* One attempt of the example of section 8.3 of the specification.
ExampleAttempt(correct, skipped) ==
    [ is_correct |-> correct, is_skipped |-> skipped, time_taken |-> Num(45),
      question |-> SqlText, pdf_reference |-> <<>> ]

\* 10 attempts: 6 correct (all over 30 s), 2 incorrect, 2 skipped.
ExampleResults ==
    [i \in 1..10 |-> IF i <= 6 THEN ExampleAttempt(TRUE, FALSE)
                     ELSE IF i <= 8 THEN ExampleAttempt(FALSE, FALSE)
                     ELSE ExampleAttempt(FALSE, TRUE)]

\* The texts classifier calls are drawn with.
QuestionTexts ==
    { <<"s", "i", "g", "n", "a", "l">>,
      <<"s", "i", "g">>,
      <<"s", "q", "l">>,
      <<"P", "i", "d">>,
      <<"\\u212a", "C", "L">> }

References ==
    { <<>>,
      <<"n", "a", "l">>,
      <<"i", "p">>,
      <<"i", "p", " ", "T", "C", "P">> }

(***************************************************************************)
(* The state machine                                                       *)
(***************************************************************************)
NoReturn == [none |-> TRUE]

\* No TestTimer has been constructed and no question asked: the analyzer is
\* used on its own.
NoConsole ==
    /\ timers = <<>>
    /\ threads = <<>>
    /\ now = 0
    /\ time_up_flag = <<>>

\* A PerformanceAnalyzer right after __init__, handed an attempt list.
Init ==
    /\ test_results \in AttemptLists \cup {ExampleResults}
    /\ op = "none"
    /\ ret = NoReturn
    /\ topic_cache = <<>>
    /\ calls = <<>>
    /\ NoConsole

CalculateMarks ==
    /\ op' = "calculate_marks_with_negative_grading"
    /\ ret' = Call("calculate_marks_with_negative_grading", test_results,
                  0, 0, 0, 0)
    /\ UNCHANGED <<test_results, topic_cache, calls>>
    /\ UNCHANGED console_vars

AnalyzeStrategy ==
    /\ op' = "analyze_strategy_effectiveness"
    /\ ret' = analyze_strategy_effectiveness(test_results)
    /\ UNCHANGED <<test_results, topic_cache, calls>>
    /\ UNCHANGED console_vars

\* An analysis that drops the skipped attempts from the caller's list (used
\* to show that the frame property depends on the list being left alone).
AnalyzePerformanceFilteringInPlace ==
    /\ op' = "analyze_performance"
    /\ ret' = Call("analyze_performance", topic_cache, test_results, 0, 0, 0)
    /\ topic_cache' = Call("CacheAfterAnalysis", topic_cache, test_results,
                          0, 0, 0)
    /\ test_results' = NonSkipped(test_results)
    /\ UNCHANGED calls
    /\ UNCHANGED console_vars

\* One call analyze_performance(test_results): the list is only read (every
\* component builds new lists and dicts), the classifier fills the cache.
AnalyzePerformance ==
    /\ op' = "analyze_performance"
    /\ ret' = Call("analyze_performance", topic_cache, test_results, 0, 0, 0)
    /\ topic_cache' = Call("CacheAfterAnalysis", topic_cache, test_results,
                          0, 0, 0)
    /\ UNCHANGED <<test_results, calls>>
    /\ UNCHANGED console_vars

Next == CalculateMarks \/ AnalyzeStrategy \/ AnalyzePerformance

Spec == Init /\ [][Next]_vars

\* A PerformanceAnalyzer right after __init__, before any classifier call.
InitTopic ==
    /\ test_results = <<>>
    /\ op = "none"
    /\ ret = NoReturn
    /\ topic_cache = <<>>
    /\ calls = <<>>
    /\ NoConsole

\* One call categorize_question_topic(question_text, pdf_reference).
Categorize(question_text, pdf_reference) ==
    /\ Len(calls) < MaxCalls
    /\ op' = "categorize_question_topic"
    /\ ret' = TopicReturned(topic_cache, question_text, pdf_reference)
    /\ topic_cache' = CacheAfter(topic_cache, question_text, pdf_reference)
    /\ calls' = Append(calls,
                  [ question_text |-> question_text,
                    pdf_reference |-> pdf_reference,
                    hit    |-> CacheHit(topic_cache, question_text, pdf_reference),
                    label  |-> TopicReturned(topic_cache, question_text,
                                             pdf_reference),
                    before |-> topic_cache,
                    after  |-> CacheAfter(topic_cache, question_text,
                                          pdf_reference) ])
    /\ UNCHANGED test_results
    /\ UNCHANGED console_vars

NextTopic ==
    \E question_text \in QuestionTexts, pdf_reference \in References :
        Categorize(question_text, pdf_reference)

SpecTopic == InitTopic /\ [][NextTopic]_vars

\* A call with the text "\u212aCL" (KELVIN SIGN, C, L) and no reference has
\* returned "circuits": lower() turns the sign into "k" and the token is the
\* keyword "kcl".
KelvinSignLoweredReached ==
    \E i \in 1..Len(calls) :
        /\ calls[i].question_text = <<"\\u212a", "C", "L">>
        /\ calls[i].pdf_reference = <<>>
        /\ calls[i].label = "circuits"

(***************************************************************************)
(* Attempt lists for the timing aggregates and the trends                  *)
(***************************************************************************)
\* The longest list drawn for the trends (two attempts in each third).
MaxLong == 6

TimedAttempt(correct, skipped, time) ==
    [ is_correct |-> correct, is_skipped |-> skipped, time_taken |-> time,
      question |-> SqlText, pdf_reference |-> <<>> ]

\* A quick correct answer, a slower incorrect one, a correct one with a time
\* above the 300 s the overall average accepts, an incorrect one whose time
\* is no number, a skipped one.
TimedAttempts ==
    { TimedAttempt(TRUE, FALSE, Num(20)),
      TimedAttempt(FALSE, FALSE, Num(40)),
      TimedAttempt(TRUE, FALSE, Num(400)),
      TimedAttempt(FALSE, FALSE, NotANumber),
      TimedAttempt(FALSE, TRUE, Num(20)) }

\* The attempts of the longer lists: well-formed times only.
LongAttempts ==
    { TimedAttempt(TRUE, FALSE, Num(20)),
      TimedAttempt(FALSE, FALSE, Num(40)),
      TimedAttempt(FALSE, TRUE, Num(20)) }

TimedLists ==
    UNION {[1..n -> TimedAttempts] : n \in 0..MaxAttempts}
    \cup UNION {[1..n -> LongAttempts] : n \in (MaxAttempts + 1)..MaxLong}

\* A PerformanceAnalyzer right after __init__, handed one of these lists.
InitTiming ==
    /\ test_results \in TimedLists
    /\ op = "none"
    /\ ret = NoReturn
    /\ topic_cache = <<>>
    /\ calls = <<>>
    /\ NoConsole

\* One call self._analyze_time_trend(test_results).
AnalyzeTimeTrend ==
    /\ op' = "_analyze_time_trend"
    /\ ret' = Call("analyze_time_trend", test_results, 0, 0, 0, 0)
    /\ UNCHANGED <<test_results, topic_cache, calls>>
    /\ UNCHANGED console_vars

\* One call self._analyze_accuracy_trend(test_results).
AnalyzeAccuracyTrend ==
    /\ op' = "_analyze_accuracy_trend"
    /\ ret' = Call("analyze_accuracy_trend", test_results, 0, 0, 0, 0)
    /\ UNCHANGED <<test_results, topic_cache, calls>>
    /\ UNCHANGED console_vars

NextTiming ==
    \/ AnalyzeTimeTrend
    \/ AnalyzeAccuracyTrend
    \/ CalculateMarks
    \/ AnalyzeStrategy
    \/ AnalyzePerformance

SpecTiming == InitTiming /\ [][NextTiming]_vars

(***************************************************************************)
(* Attempt lists for the thresholds of the time trend                      *)
(*                                                                         *)
(* Three answered attempts, so that each third is one attempt; the times   *)
(* of the first and the last put the percent change below, on and above    *)
(* each of -15, -10, -5, 0, 5, 10 and 15, and the first-third mean at 0.   *)
(* Nine answered attempts, so that each third is three attempts and the    *)
(* means are thirds of a second: the sums of the thirds put the change on  *)
(* and next to the same thresholds.                                        *)
(***************************************************************************)
TrendFirstTimes == { 0, 20, 100 }

TrendLastTimes ==
    { 0, 16, 17, 18, 19, 20, 21, 22, 23, 24, 84, 85, 86, 89, 90, 91, 94, 95,
      96, 100, 104, 105, 106, 109, 110, 111, 114, 115, 116 }

TrendLists ==
    { << TimedAttempt(TRUE, FALSE, Num(first)),
         TimedAttempt(FALSE, FALSE, Num(40)),
         TimedAttempt(TRUE, FALSE, Num(last)) >> :
        first \in TrendFirstTimes, last \in TrendLastTimes }
    \cup
    { << TimedAttempt(TRUE, FALSE, Num(first)),
         TimedAttempt(FALSE, TRUE, Num(20)),
         TimedAttempt(FALSE, FALSE, Num(40)),
         TimedAttempt(TRUE, FALSE, Num(last)) >> :
        first \in TrendFirstTimes, last \in TrendLastTimes }

\* The times of a third of three attempts.
TrendFirstTriples == { <<6, 7, 7>>, <<3, 3, 4>>, <<33, 33, 34>> }

TrendLastTriples ==
    { <<5, 6, 6>>, <<6, 6, 6>>, <<6, 6, 7>>, <<6, 7, 7>>, <<7, 7, 7>>,
      <<7, 7, 8>>, <<7, 8, 8>>, <<3, 3, 3>>, <<28, 28, 29>>, <<28, 28, 28>>,
      <<38, 38, 39>> }

TrendTripleLists ==
    { << TimedAttempt(TRUE, FALSE, Num(first[1])),
         TimedAttempt(TRUE, FALSE, Num(first[2])),
         TimedAttempt(TRUE, FALSE, Num(first[3])),
         TimedAttempt(FALSE, FALSE, Num(40)),
         TimedAttempt(FALSE, FALSE, Num(40)),
         TimedAttempt(FALSE, FALSE, Num(40)),
         TimedAttempt(TRUE, FALSE, Num(last[1])),
         TimedAttempt(TRUE, FALSE, Num(last[2])),
         TimedAttempt(TRUE, FALSE, Num(last[3])) >> :
        first \in TrendFirstTriples, last \in TrendLastTriples }

\* A PerformanceAnalyzer right after __init__, handed one of these lists.
InitTrend ==
    /\ NoConsole
    /\ test_results \in TrendLists \cup TrendTripleLists
    /\ op = "none"
    /\ ret = NoReturn
    /\ topic_cache = <<>>
    /\ calls = <<>>

NextTrend == AnalyzeTimeTrend

SpecTrend == InitTrend /\ [][NextTrend]_vars

(***************************************************************************)
(* Attempt lists as the callers record them                                *)
(*                                                                         *)
(* conduct_test records is_correct as user_answer == correct_answer, with  *)
(* correct_answer one of A, B, C, D, and is_skipped as                     *)
(* user_answer == 'SKIP' (lines 1025-1037); api_submit_results hands on no *)
(* is_skipped at all (app.py lines 429-439).  So no recorded attempt is    *)
(* flagged both correct and skipped.  The attempts are on two questions    *)
(* that classify under different topics ("sql": databases, "signal":       *)
(* signals); time_taken is a number or a string that is no number.         *)
(***************************************************************************)
SignalText == <<"s", "i", "g", "n", "a", "l">>

RecordedAttempts ==
    { a \in [ is_correct : BOOLEAN, is_skipped : BOOLEAN,
              time_taken : {Num(20), Num(40), NotANumber},
              question : {SqlText, SignalText}, pdf_reference : {<<>>} ] :
        ~(a.is_correct /\ a.is_skipped) }

RecordedLists == UNION {[1..n -> RecordedAttempts] : n \in 0..MaxAttempts}

\* A PerformanceAnalyzer right after __init__, handed one of these lists.
InitRecorded ==
    /\ test_results \in RecordedLists
    /\ op = "none"
    /\ ret = NoReturn
    /\ topic_cache = <<>>
    /\ calls = <<>>
    /\ NoConsole

\* The marking engine on its own, or the whole analysis; the topic
\* aggregator is private and runs only inside analyze_performance
\* (line 351, its one call).
NextRecorded == CalculateMarks \/ AnalyzePerformance

SpecRecorded == InitRecorded /\ [][NextRecorded]_vars

(***************************************************************************)
(* Calls of _assess_topic_difficulty                                       *)
(*                                                                         *)
(* The arguments are drawn on both sides of, and on, every threshold of    *)
(* the rules.  `calls` holds the arguments of the call.                    *)
(***************************************************************************)
\* marks, in 1/MarkScale: thirds of a mark that put the score of 10
\* questions at -13.3, -10, -6.7, 6.7, 10, 13.3, 66.7, 70, 73.3 and 100 %.
DifficultyMarks ==
    { k * (MarkScale \div 3) : k \in {-4, -3, -2, 2, 3, 4, 20, 21, 22, 30} }

DifficultyTotals == { 0, 10 }

\* accuracy, in percent
DifficultyAccuracies == { Rat(49, 1), Rat(50, 1), Rat(51, 1) }

\* overall_avg, in seconds
DifficultyOverallAvgs == { Rat(0, 1), Rat(30, 1) }

\* topic_time, in seconds: around 0.9 x 30 and 1.3 x 30
DifficultyTopicTimes ==
    { Rat(26, 1), Rat(27, 1), Rat(28, 1), Rat(38, 1), Rat(39, 1), Rat(40, 1) }

\* Calls whose averages are fractions of a second, with the topic time
\* exactly on, or next to, 0.9 x and 1.3 x the overall average: 11.7 s
\* against 13 s with a score of 100 %, and 169/30 s against 13/3 s with a
\* score of 20 % and an accuracy of 40 %.
DifficultyFractionCalls ==
    { [ topic_time |-> topic_time, overall_avg |-> Rat(13, 1),
        accuracy |-> Rat(100, 1), marks |-> 10 * MarkScale,
        total_questions |-> 10 ] :
        topic_time \in { Rat(116, 10), Rat(117, 10), Rat(118, 10) } }
    \cup
    { [ topic_time |-> topic_time, overall_avg |-> Rat(13, 3),
        accuracy |-> Rat(40, 1), marks |-> 2 * MarkScale,
        total_questions |-> 10 ] :
        topic_time \in { Rat(168, 30), Rat(169, 30), Rat(170, 30) } }

DifficultyCalls ==
    [ topic_time : DifficultyTopicTimes,
      overall_avg : DifficultyOverallAvgs,
      accuracy : DifficultyAccuracies,
      marks : DifficultyMarks,
      total_questions : DifficultyTotals ]
    \cup DifficultyFractionCalls

InitDifficulty ==
    /\ NoConsole
    /\ test_results = <<>>
    /\ op = "none"
    /\ ret = NoReturn
    /\ topic_cache = <<>>
    /\ calls \in {<<call>> : call \in DifficultyCalls}

\* One call self._assess_topic_difficulty(...) with the arguments held; the
\* float passed for marks is the one nearest to the value held.
AssessDifficulty ==
    /\ UNCHANGED console_vars
    /\ op' = "_assess_topic_difficulty"
    /\ ret' = Call("AssessTopicDifficulty", calls[1].topic_time,
                   calls[1].overall_avg, calls[1].accuracy, calls[1].marks,
                   calls[1].total_questions)
    /\ UNCHANGED <<test_results, topic_cache, calls>>

NextDifficulty == AssessDifficulty

SpecDifficulty == InitDifficulty /\ [][NextDifficulty]_vars

(***************************************************************************)
(* The web submission endpoint (src/app.py, api_submit_results)            *)
(*                                                                         *)
(* `calls` holds the JSON body of the request; the attempts of its         *)
(* 'results' list carry the flag 'skipped'.  The endpoint copies a fixed   *)
(* set of keys into validated_results and hands that list to a new         *)
(* PerformanceAnalyzer.                                                    *)
(***************************************************************************)
\* The attempts a client submits: answered right or wrong, or skipped; some
\* carry a 'question_number' of their own, and one a time that is a string.
SubmittedAttempts ==
    [ is_correct : BOOLEAN, skipped : BOOLEAN,
      time_taken : {Num(20), Num(40)}, question : {SqlText} ]
    \cup [ is_correct : BOOLEAN, skipped : {FALSE}, time_taken : {Num(20)},
           question : {SqlText}, question_number : {7} ]
    \cup [ is_correct : {TRUE}, skipped : {FALSE}, time_taken : {NotANumber},
           question : {SqlText} ]

SubmittedLists == UNION {[1..n -> SubmittedAttempts] : n \in 0..MaxAttempts}

\* validated_result of the attempt at position i of the body:
\* 'question_number' is the attempt's own or its position.  'is_skipped' and
\* 'pdf_reference' are not among the keys copied, so the analyzer's
\* result.get('is_skipped', False) is False and its
\* result.get('pdf_reference', '') is ''.
ValidatedResult(result, i) ==
    [ question_number |-> IF "question_number" \in DOMAIN result
                          THEN result.question_number ELSE i,
      question      |-> result.question,
      is_correct    |-> result.is_correct,
      time_taken    |-> result.time_taken,
      skipped       |-> result.skipped,
      is_skipped    |-> FALSE,
      pdf_reference |-> <<>> ]

ValidatedResults(results) ==
    [i \in 1..Len(results) |-> ValidatedResult(results[i], i)]

\* The basic stats of the response.  sum(r['time_taken'] ...) raises
\* TypeError when a time is a string.
BasicStats(validated_results) ==
    LET total_questions == Len(validated_results)
        correct_count == Cardinality({i \in 1..total_questions :
                                        validated_results[i].is_correct})
        total_time == SeqSum(TimesOf(validated_results))
    IN  IF \E i \in 1..total_questions :
              ~IsNumeric(validated_results[i].time_taken)
        THEN Raised("TypeError")
        ELSE
        [ success           |-> TRUE,
          score             |-> RoundPct(correct_count, total_questions),
          total_questions   |-> total_questions,
          correct_answers   |-> correct_count,
          incorrect_answers |-> total_questions - correct_count,
          total_time        |-> total_time,
          \* round(total_time / total_questions, 2)
          average_time      |-> Round2(Rat(total_time, total_questions)) ]

\* The request gets as far as the analysis: it has results, and the basic
\* stats raise nothing.
SubmitReachesAnalysis(data) ==
    /\ Len(data.results) > 0
    /\ "raised" \notin DOMAIN BasicStats(ValidatedResults(data.results))

\* The response of api_submit_results to a JSON body: response_data is the
\* basic stats with the keys of the analysis merged in; an exception of the
\* basic stats reaches the outer handler, which answers 500.
SubmitResponse(data) ==
    IF Len(data.results) = 0
    THEN [success |-> FALSE, error |-> "No results provided"]
    ELSE IF ~SubmitReachesAnalysis(data)
    THEN [ success |-> FALSE,
           error |-> "An unexpected error occurred while analyzing results." ]
    ELSE Call("analyze_performance", <<>>, ValidatedResults(data.results),
               0, 0, 0)
            @@ BasicStats(ValidatedResults(data.results))

(***************************************************************************)
(* Calls by name                                                           *)
(***************************************************************************)
\* The method or float operation `name` applied to the arguments a .. e (the
\* marks handed to _assess_topic_difficulty are the float of the sum d).
Call(name, a, b, c, d, e) ==
    CASE name = "calculate_marks_with_negative_grading" ->
              calculate_marks_with_negative_grading(a)
      [] name = "analyze_performance" -> analyze_performance(a, b)
      [] name = "CacheAfterAnalysis" -> CacheAfterAnalysis(a, b)
      [] name = "analyze_time_trend" -> analyze_time_trend(a)
      [] name = "analyze_accuracy_trend" -> analyze_accuracy_trend(a)
      [] name = "AnalyzeTopics" -> AnalyzeTopics(a, b, c)
      [] name = "AssessTopicDifficulty" ->
              AssessTopicDifficulty(a, b, c, d, e, MarkFloat(d))
      [] name = "calculate_comprehensive_grade" ->
              calculate_comprehensive_grade(a, b, c, d, e)
      [] name = "SubmitReachesAnalysis" -> SubmitReachesAnalysis(a)
      [] name = "SubmitResponse" -> SubmitResponse(a)
      [] name = "Lower" -> Lower(a)
      [] name = "BigNorm" -> BigNormImpl(a)
      [] name = "BigFromInt" -> BigFromIntImpl(a)
      [] name = "BigToInt" -> BigToIntImpl(a)
      [] name = "BigAdd" -> BigAddImpl(a, b)
      [] name = "BigSub" -> BigSubImpl(a, b)
      [] name = "BigCmp" -> BigCmpImpl(a, b)
      [] name = "BigMulInt" -> BigMulIntImpl(a, b)
      [] name = "BigShiftLimbs" -> BigShiftLimbsImpl(a, b)
      [] name = "BigMul" -> BigMulImpl(a, b)
      [] name = "BigShl" -> BigShlImpl(a, b)
      [] name = "BigShr" -> BigShrImpl(a, b)
      [] name = "BigBitLen" -> BigBitLenImpl(a)
      [] name = "BigDivModStep" -> BigDivModStepImpl(a, b, c)
      [] name = "BigDivModFrom" -> BigDivModFromImpl(a, b, c)
      [] name = "BigDivMod" -> BigDivModImpl(a, b)
      [] name = "BigShrHalfEven" -> BigShrHalfEvenImpl(a, b)
      [] name = "FRoundBig" -> FRoundBigImpl(a, b, c)
      [] name = "FInt" -> FIntImpl(a)
      [] name = "FNeg" -> FNegImpl(a)
      [] name = "FAbs" -> FAbsImpl(a)
      [] name = "FCmpAbs" -> FCmpAbsImpl(a, b)
      [] name = "FCmp" -> FCmpImpl(a, b)
      [] name = "FLess" -> FLessImpl(a, b)
      [] name = "FAdd" -> FAddImpl(a, b)
      [] name = "FSub" -> FSubImpl(a, b)
      [] name = "FMul" -> FMulImpl(a, b)
      [] name = "FDiv" -> FDivImpl(a, b)
      [] name = "FRat" -> FRatImpl(a, b)
      [] name = "FRound" -> FRoundImpl(a, b)

\* A request about to be handled.
InitSubmit ==
    /\ NoConsole
    /\ test_results = <<>>
    /\ op = "none"
    /\ ret = NoReturn
    /\ topic_cache = <<>>
    /\ calls \in {<<[results |-> results]>> : results \in SubmittedLists}

\* POST /api/submit_results: test_results is the list handed to the new
\* analyzer, topic_cache that analyzer's cache (both stay empty when no
\* analyzer is created).
ApiSubmitResults ==
    /\ UNCHANGED console_vars
    /\ op = "none"
    /\ op' = "api_submit_results"
    /\ ret' = Call("SubmitResponse", calls[1], 0, 0, 0, 0)
    /\ test_results' = IF Call("SubmitReachesAnalysis", calls[1], 0, 0, 0, 0)
                       THEN ValidatedResults(calls[1].results) ELSE <<>>
    /\ topic_cache' = IF Call("SubmitReachesAnalysis", calls[1], 0, 0, 0, 0)
                      THEN Call("CacheAfterAnalysis", <<>>,
                                ValidatedResults(calls[1].results), 0, 0, 0)
                      ELSE <<>>
    /\ UNCHANGED calls

NextSubmit == ApiSubmitResults

SpecSubmit == InitSubmit /\ [][NextSubmit]_vars

(***************************************************************************)
(* Calls of _calculate_comprehensive_grade                                 *)
(*                                                                         *)
(* The arguments are drawn on both sides of every threshold the function   *)
(* compares them with.  Percentages are in hundredths.  `calls` holds the  *)
(* arguments of the call.                                                  *)
(***************************************************************************)
\* score_percentage: the marking percentage (up to 110 with the time bonus).
\* No value is a tie of round(final_score * 1.1, 2) or round(final_score *
\* 0.9, 2), which would fall to the binary representation of the product.
GradeScores ==
    { 0, 3499, 3500, 4499, 4500, 4999, 5000, 5999, 6000, 6001, 6499, 6500,
      7499, 7500, 8499, 8500, 9999, 10000, 11000 }

\* avg_time in seconds
GradeTimes == { Rat(34, 1), Rat(35, 1), Rat(99, 2), Rat(50, 1), Rat(55, 1), Rat(56, 1) }

GradeNegativeImpacts == { 0, 1000, 1001, 1500, 1501 }

GradeAttemptRates == { 5999, 6000, 6001, 7000, 7001, 8000, 8001, 8500, 8501 }

GradeCorrectRatios == { 6000, 6001, 7000, 7001 }

\* The arguments of one call.  skipped_questions and total_questions are not
\* read by the function.
GradeCalls ==
    [ score_percentage : GradeScores,
      avg_time : GradeTimes,
      marking_analysis :
          [ efficiency_metrics :
              [ negative_impact : GradeNegativeImpacts,
                attempt_rate : GradeAttemptRates,
                correct_attempt_ratio : GradeCorrectRatios ] ] ]

InitGrade ==
    /\ test_results = <<>>
    /\ op = "none"
    /\ ret = NoReturn
    /\ topic_cache = <<>>
    /\ calls \in {<<call>> : call \in GradeCalls}
    /\ NoConsole

\* One call self._calculate_comprehensive_grade(...) with the arguments held.
CalculateGrade ==
    /\ op' = "_calculate_comprehensive_grade"
    /\ ret' = Call("calculate_comprehensive_grade",
                  calls[1].score_percentage, calls[1].avg_time, 0, 1,
                  calls[1].marking_analysis)
    /\ UNCHANGED <<test_results, topic_cache, calls>>
    /\ UNCHANGED console_vars

NextGrade == CalculateGrade

SpecGrade == InitGrade /\ [][NextGrade]_vars

(***************************************************************************)
(* TestTimer (src/assessment.py, class TestTimer)                          *)
(*                                                                         *)
(* Every access to the fields of a TestTimer is made inside `with          *)
(* self._lock`, so each locked block is one atomic step.  A field that is  *)
(* None is held as 0 (start_time; time.time() is never 0) or as "None"     *)
(* (time_up_callback).  The clock advances in steps of 30 s and never goes *)
(* back.  `calls` records the calls of the timer's methods and the         *)
(* invocations of the callback, in order.                                  *)
(***************************************************************************)
\* The number of start() calls, of method calls and of clock steps followed.
MaxStarts == 2

MaxTimerCalls == 4

MaxTicks == 4

\* TestTimer.__init__
NewTestTimer(duration_minutes) ==
    [ duration         |-> Max(1, duration_minutes) * 60,
      start_time       |-> 0,
      is_active        |-> FALSE,
      time_up_callback |-> "None" ]

\* The fields of a timer after the locked block of start(callback).
Started(timer, callback) ==
    [timer EXCEPT !.start_time = now,
                  !.is_active = TRUE,
                  !.time_up_callback = callback]

\* The thread start() creates for timer number t: it sleeps for the duration.
CountdownThread(t) ==
    [ timer |-> t, wake_at |-> now + timers[t].duration, pc |-> "sleeping" ]

\* What stop() returns and the fields it leaves.
StopReturns(timer) ==
    IF timer.start_time # 0
    THEN Min(now - timer.start_time, timer.duration)
    ELSE 0

Stopped(timer) ==
    IF timer.start_time # 0 THEN [timer EXCEPT !.is_active = FALSE] ELSE timer

\* What get_remaining_time() returns.
RemainingTime(timer) ==
    IF timer.start_time = 0 \/ ~timer.is_active THEN 0
    ELSE Max(0, timer.duration - (now - timer.start_time))

\* An entry of the record of calls: what happened, the thread that did it
\* (0: the caller's), what the call returned, and is_active as the call or
\* the thread found it.
TimerEvent(event, thread, returned, active) ==
    [ event |-> event, thread |-> thread, returned |-> returned,
      active |-> active ]

\* The method calls among the first n entries.
MethodCalls(n) == {j \in 1..n : calls[j].event # "time_up"}

\* timer_countdown of thread k, once its sleep is over: under the lock it
\* invokes the callback if the timer is active and has one, then clears
\* is_active.  The callback "time_up" of get_user_answer sets the flag of its
\* call.
TimerCountdown(k) ==
    /\ threads[k].pc = "sleeping"
    /\ now >= threads[k].wake_at
    /\ LET t == threads[k].timer
           fires == timers[t].is_active /\ timers[t].time_up_callback # "None"
       IN  /\ calls' = IF fires
                        THEN Append(calls, TimerEvent("time_up", k, 0,
                                                timers[t].is_active))
                        ELSE calls
           /\ time_up_flag' =
                 IF fires /\ timers[t].time_up_callback = "time_up"
                 THEN [time_up_flag EXCEPT ![t] = TRUE]
                 ELSE time_up_flag
           /\ timers' = [timers EXCEPT ![t].is_active = FALSE]
    /\ threads' = [threads EXCEPT ![k].pc = "done"]
    /\ UNCHANGED <<test_results, op, ret, topic_cache, now>>

\* timer.start(callback)
TimerStart(callback) ==
    /\ Len(threads) < MaxStarts
    /\ Cardinality(MethodCalls(Len(calls))) < MaxTimerCalls
    /\ timers' = [timers EXCEPT ![1] = Started(timers[1], callback)]
    /\ threads' = Append(threads, CountdownThread(1))
    /\ calls' = Append(calls, TimerEvent("start", 0, 0, timers[1].is_active))
    /\ op' = "start"
    /\ ret' = NoReturn
    /\ UNCHANGED <<test_results, topic_cache, now, time_up_flag>>

\* timer.stop()
TimerStop ==
    /\ Cardinality(MethodCalls(Len(calls))) < MaxTimerCalls
    /\ ret' = StopReturns(timers[1])
    /\ timers' = [timers EXCEPT ![1] = Stopped(timers[1])]
    /\ calls' = Append(calls, TimerEvent("stop", 0, StopReturns(timers[1]),
                                          timers[1].is_active))
    /\ op' = "stop"
    /\ UNCHANGED <<test_results, topic_cache, threads, now, time_up_flag>>

\* timer.get_remaining_time()
TimerGetRemainingTime ==
    /\ Cardinality(MethodCalls(Len(calls))) < MaxTimerCalls
    /\ ret' = RemainingTime(timers[1])
    /\ calls' = Append(calls, TimerEvent("get_remaining_time", 0,
                                          RemainingTime(timers[1]),
                                          timers[1].is_active))
    /\ op' = "get_remaining_time"
    /\ UNCHANGED <<test_results, topic_cache, timers, threads, now,
                   time_up_flag>>

\* The clock moves on by 30 s.
Tick ==
    /\ now < 1 + 30 * MaxTicks
    /\ now' = now + 30
    /\ UNCHANGED <<test_results, op, ret, topic_cache, calls, timers, threads,
                   time_up_flag>>

\* A TestTimer of one minute right after __init__.
InitTimer ==
    /\ test_results = <<>>
    /\ op = "none"
    /\ ret = NoReturn
    /\ topic_cache = <<>>
    /\ calls = <<>>
    /\ timers = <<NewTestTimer(1)>>
    /\ threads = <<>>
    /\ now = 1
    /\ time_up_flag = <<FALSE>>

NextTimer ==
    \/ \E callback \in {"None", "callback"} : TimerStart(callback)
    \/ TimerStop
    \/ TimerGetRemainingTime
    \/ \E k \in 1..Len(threads) : TimerCountdown(k)
    \/ Tick

SpecTimer == InitTimer /\ [][NextTimer]_vars

(***************************************************************************)
(* The console test (TestInterface.conduct_test and get_user_answer)       *)
(*                                                                         *)
(* conduct_test runs on the main thread and blocks in input().  `op` is    *)
(* where the main thread is: blocked in the input() of "start" (line 999), *)
(* of "answer" (line 960, inside get_user_answer) or of "next" (line       *)
(* 1054), about to call timer.stop() after the input() of an answer        *)
(* ("stop"), or "returned".  The countdown threads share only the timers   *)
(* with the main thread, under the timers' locks, so the steps of the main *)
(* thread are: from an input() to the next, cut at timer.stop().           *)
(* `test_results` is the local list of conduct_test, `calls` records what  *)
(* the user typed and the invocations of time_up, in order.  Timer number  *)
(* q is the one of question q.                                             *)
(***************************************************************************)
\* The questions of the test; the second one has no valid correct_answer.
ConsoleQuestions ==
    << [ question |-> SqlText, correct_answer |-> "A", pdf_reference |-> <<>> ],
       [ question |-> SignalText, correct_answer |-> "E",
         pdf_reference |-> <<>> ] >>

\* time_per_question, in minutes
TimePerQuestion == 1

\* The lines a user types at the answer prompt: "A", " b\t", "skip", "x",
\* the empty line, and "skip" written with LATIN SMALL LETTER LONG S and
\* LATIN SMALL LETTER DOTLESS I, whose upper case is "SKIP".
TypedLines ==
    { <<"A">>,
      <<" ", "b", "\t">>,
      <<"s", "k", "i", "p">>,
      <<"x">>,
      <<>>,
      <<"\\u017f", "k", "\\u0131", "p">> }

\* answer = input().strip().upper() (line 960)
StripUpper(line) == Upper(Strip(line))

\* What get_user_answer returns for `answer` (lines 964-969): the answer
\* itself if it is a valid one, 'SKIP' if not.
Validated(answer) ==
    IF answer \in { <<"A">>, <<"B">>, <<"C">>, <<"D">>, <<"S", "K", "I", "P">> }
    THEN Str(answer)
    ELSE "SKIP"

\* The answer get_user_answer returns for a typed line.
AnswerOf(line) == Validated(StripUpper(line))

\* correct_answer as conduct_test validates it
ValidCorrectAnswer(question) ==
    IF question.correct_answer \in {"A", "B", "C", "D"}
    THEN question.correct_answer
    ELSE "A"

\* result, the dict conduct_test records for question i
ConsoleResult(i, user_answer, time_taken) ==
    [ question_number |-> i,
      question        |-> ConsoleQuestions[i].question,
      correct_answer  |-> ValidCorrectAnswer(ConsoleQuestions[i]),
      user_answer     |-> user_answer,
      is_correct      |-> user_answer = ValidCorrectAnswer(ConsoleQuestions[i]),
      is_skipped      |-> user_answer = "SKIP",
      time_taken      |-> Num(time_taken),
      pdf_reference   |-> ConsoleQuestions[i].pdf_reference ]

\* An entry of the record: the event, the question it belongs to, and what
\* input() gave: the line it returned, or the exception it raised; `answer`
\* is what line 960 makes of the line.
ConsoleEvent(event, question, line, raised) ==
    [ event |-> event, thread |-> question, returned |-> 0, active |-> FALSE,
      line |-> line, raised |-> raised, answer |-> StripUpper(line) ]

\* input() at a prompt where any line goes on: Enter, or an exception.
KeyPressed(key) ==
    ConsoleEvent("input", 0, <<>>, IF key = "Enter" THEN "None" ELSE key)

\* The question being asked: the one of the newest timer.
CurrentQuestion == Len(timers)

\* The loop body up to input() of get_user_answer: a new TestTimer for the
\* next question, time_up_flag = [False], timer.start(time_up).
AskNextQuestion ==
    /\ timers' = Append(timers,
                        Started(NewTestTimer(TimePerQuestion), "time_up"))
    /\ threads' = Append(threads,
                         [ timer |-> Len(timers) + 1,
                           wake_at |-> now + NewTestTimer(TimePerQuestion).duration,
                           pc |-> "sleeping" ])
    /\ time_up_flag' = Append(time_up_flag, FALSE)
    /\ op' = "answer"

\* The main thread leaves conduct_test with the results recorded so far.
ReturnResults(results) ==
    /\ op' = "returned"
    /\ ret' = [test_results |-> results]

\* "Press Enter to start...": Enter starts the first question; Ctrl+C or
\* the end of the input returns an empty list.
BeginTest(key) ==
    /\ op = "start"
    /\ calls' = Append(calls, KeyPressed(key))
    /\ IF key = "Enter"
       THEN /\ AskNextQuestion
            /\ UNCHANGED <<test_results, ret>>
       ELSE /\ ReturnResults(<<>>)
            /\ UNCHANGED <<test_results, timers, threads, time_up_flag>>
    /\ UNCHANGED <<topic_cache, now>>

\* The user types a line at the answer prompt: input() returns and the line
\* is stripped and put in upper case (line 960).
\* The main thread has yet to take the timer's lock in timer.stop() (line
\* 961), so the countdown thread can still run its locked block first.
EnterAnswer(line) ==
    /\ op = "answer"
    /\ calls' = Append(calls,
                       ConsoleEvent("input", CurrentQuestion, line, "None"))
    /\ op' = "stop"
    /\ UNCHANGED <<test_results, ret, topic_cache, timers, threads, now,
                   time_up_flag>>

\* Ctrl+C at the answer prompt: input() raises KeyboardInterrupt; timer.stop()
\* (line 972) is yet to come.
InterruptAnswer ==
    /\ op = "answer"
    /\ calls' = Append(calls, ConsoleEvent("input", CurrentQuestion, <<>>,
                                           "KeyboardInterrupt"))
    /\ op' = "stop"
    /\ UNCHANGED <<test_results, ret, topic_cache, timers, threads, now,
                   time_up_flag>>

\* The input ends at the answer prompt: input() raises EOFError; timer.stop()
\* (line 976) is yet to come.
EndOfInputAtAnswer ==
    /\ op = "answer"
    /\ calls' = Append(calls, ConsoleEvent("input", CurrentQuestion, <<>>,
                                           "EOFError"))
    /\ op' = "stop"
    /\ UNCHANGED <<test_results, ret, topic_cache, timers, threads, now,
                   time_up_flag>>

\* What input() of the question being asked gave.
PendingInput ==
    calls[CHOOSE j \in 1..Len(calls) :
              calls[j].event = "input" /\ calls[j].thread = CurrentQuestion]

\* user_answer of what get_user_answer returns: the answer for a typed line,
\* 'SKIP' for EOFError, and None for KeyboardInterrupt (`return None, 0`
\* returns the pair (None, 0), which is not None, so conduct_test does not
\* break at line 1018 and unpacks it).
UserAnswer(input) ==
    IF input.raised = "KeyboardInterrupt" THEN "None"
    ELSE IF input.raised = "EOFError" THEN "SKIP"
    ELSE Validated(input.answer)

\* time_taken of what get_user_answer returns: what timer.stop() returned
\* for a typed line, timer.duration for EOFError, 0 for KeyboardInterrupt.
TimeTaken(input, timer) ==
    IF input.raised = "KeyboardInterrupt" THEN 0
    ELSE IF input.raised = "EOFError" THEN timer.duration
    ELSE StopReturns(timer)

\* timer.stop() (lines 961, 972, 976) and the code up to the next input():
\* the result is recorded, and the main thread goes on to "Press Enter for
\* next question" (or returns after the last question).
RecordAnswer ==
    /\ op = "stop"
    /\ timers' = [timers EXCEPT ![CurrentQuestion] = Stopped(@)]
    /\ test_results' =
          Append(test_results,
                 ConsoleResult(CurrentQuestion, UserAnswer(PendingInput),
                               TimeTaken(PendingInput, timers[CurrentQuestion])))
    /\ IF CurrentQuestion < Len(ConsoleQuestions)
       THEN op' = "next" /\ UNCHANGED ret
       ELSE ReturnResults(test_results')
    /\ UNCHANGED <<topic_cache, calls, threads, now, time_up_flag>>

\* "Press Enter for next question": Enter goes on, Ctrl+C or the end of the
\* input ends the test.
PressEnterForNext(key) ==
    /\ op = "next"
    /\ calls' = Append(calls, KeyPressed(key))
    /\ IF key = "Enter"
       THEN /\ AskNextQuestion
            /\ UNCHANGED ret
       ELSE /\ ReturnResults(test_results)
            /\ UNCHANGED <<timers, threads, time_up_flag>>
    /\ UNCHANGED <<test_results, topic_cache, now>>

\* conduct_test(questions, 1) about to wait for Enter.
InitConsole ==
    /\ test_results = <<>>
    /\ op = "start"
    /\ ret = NoReturn
    /\ topic_cache = <<>>
    /\ calls = <<>>
    /\ timers = <<>>
    /\ threads = <<>>
    /\ now = 1
    /\ time_up_flag = <<>>

\* What the user does, the countdown threads, and the clock.
NextConsole ==
    \/ \E key \in {"Enter", "KeyboardInterrupt", "EOFError"} : BeginTest(key)
    \/ \E line \in TypedLines : EnterAnswer(line)
    \/ InterruptAnswer
    \/ EndOfInputAtAnswer
    \/ RecordAnswer
    \/ \E key \in {"Enter", "KeyboardInterrupt", "EOFError"} :
          PressEnterForNext(key)
    \/ \E k \in 1..Len(threads) : TimerCountdown(k)
    \/ Tick

SpecConsole == InitConsole /\ [][NextConsole]_vars

\* The same, with the countdown threads, the clock and the main thread (when
\* it is not waiting for input) running on; nothing is assumed about the user.
SpecConsoleUnattended ==
    /\ SpecConsole
    /\ WF_vars(Tick \/ \E k \in 1..Len(threads) : TimerCountdown(k))
    /\ WF_vars(RecordAnswer)

(***************************************************************************)
(* Properties of the marking engine (checked under Spec)                   *)
(***************************************************************************)
\* calculate_marks_with_negative_grading has returned for a non-empty list.
Marked ==
    /\ op = "calculate_marks_with_negative_grading"
    /\ Len(test_results) > 0

\* The attempts the marking loop scores: those whose time converts to a float.
Scored(results) == {i \in 1..Len(results) : IsNumeric(results[i].time_taken)}

\* Attempts that are correct once skipping has taken precedence.
CorrectNotSkipped(results) ==
    {i \in 1..Len(results) : results[i].is_correct /\ ~results[i].is_skipped}

IncorrectNotSkipped(results) ==
    {i \in 1..Len(results) : ~results[i].is_correct /\ ~results[i].is_skipped}

SlowCorrect(results) ==
    {i \in CorrectNotSkipped(results) \cap Scored(results) :
        results[i].time_taken.v >= 30}

FastCorrect(results) ==
    {i \in CorrectNotSkipped(results) \cap Scored(results) :
        results[i].time_taken.v < 30}

\* C1: for every non-empty attempt list the returned percentage_score lies in
\* [0, 100], fast correct answers and negative totals included.
\* (Violated: a fast correct answer earns 1.1 of a ceiling of 1.0.)
C1_PercentageWithin0And100 ==
    Marked =>
        /\ ret.marking_summary.percentage_score >= 0
        /\ ret.marking_summary.percentage_score <= 100 * 100

\* C2 as stated: total_marks_earned = 1.0 x slow correct + 1.1 x fast correct
\* - 1/3 x incorrect non-skipped, every incorrect non-skipped attempt of the
\* list counted, and maximum_possible_marks = number of attempts.
C2_TotalCountsEveryIncorrect ==
    Marked =>
        /\ ret.marking_summary.total_marks_earned =
              Round3(Cardinality(SlowCorrect(test_results)) * MarkScale
                     + Cardinality(FastCorrect(test_results)) * 11 * (MarkScale \div 10)
                     - Cardinality(IncorrectNotSkipped(test_results))
                            * (MarkScale \div 3))
        /\ ret.marking_summary.maximum_possible_marks
              = Len(test_results) * MarkScale

\* C2 (amended): total_marks_earned = 1.0 x slow correct + 1.1 x fast correct
\* - 1/3 x the incorrect non-skipped attempts whose time is numeric (rounded
\* to 3 decimals), skipped attempts contributing 0 and skip taking precedence
\* over is_correct; maximum_possible_marks = number of attempts; and the 10
\* attempt example gives 5.333 of 10, 53.33 percent.
C2_TotalMarksFormula ==
    Marked =>
        /\ ret.marking_summary.total_marks_earned =
              Round3(Cardinality(SlowCorrect(test_results)) * MarkScale
                     + Cardinality(FastCorrect(test_results)) * 11 * (MarkScale \div 10)
                     - Cardinality(IncorrectNotSkipped(test_results)
                                     \cap Scored(test_results))
                            * (MarkScale \div 3))
        /\ ret.marking_summary.maximum_possible_marks
              = Len(test_results) * MarkScale
        /\ test_results = ExampleResults =>
              /\ ret.marking_summary.total_marks_earned = 5333
              /\ ret.marking_summary.maximum_possible_marks = 10 * MarkScale
              /\ ret.marking_summary.percentage_score = 5333

\* C2 witness: the example list has been marked.
C2_Witness ==
    /\ Marked
    /\ test_results = ExampleResults
    /\ ret.marking_summary.total_marks_earned = 5333

\* C3: when no correct attempt earns the time bonus,
\* positive_marks - negative_marks = total_marks_earned on the reported
\* (3-decimal) values.
C3_PositiveMinusNegativeIsTotal ==
    (Marked /\ FastCorrect(test_results) = {}) =>
        ret.marking_summary.positive_marks - ret.marking_summary.negative_marks
            = ret.marking_summary.total_marks_earned

\* C3 witness: a marked list without bonus in which both sums are non-zero.
C3_Witness ==
    /\ Marked
    /\ FastCorrect(test_results) = {}
    /\ ret.marking_summary.positive_marks > 0
    /\ ret.marking_summary.negative_marks > 0

RECURSIVE SumMarksEarned(_)
\* The manual recomputation: the sum of the entries' marks_earned.
SumMarksEarned(question_wise_marks) ==
    IF question_wise_marks = <<>> THEN 0
    ELSE Head(question_wise_marks).marks_earned
            + SumMarksEarned(Tail(question_wise_marks))

IncorrectEntries(question_wise_marks) ==
    {i \in 1..Len(question_wise_marks) :
        question_wise_marks[i].marking_type = "incorrect"}

\* C4 as stated: the sum of the marks_earned entries equals total_marks_earned.
\* (Violated: two incorrect attempts give -0.333 + -0.333 against -0.667.)
C4_SumOfEntriesEqualsTotal ==
    Marked =>
        SumMarksEarned(ret.question_wise_marks)
            = ret.marking_summary.total_marks_earned

\* C4 (amended): the sum of the marks_earned entries is never below
\* total_marks_earned and exceeds it by at most 0.0005 per incorrect entry
\* (each is rounded to -0.333); the two are equal when at most one entry is
\* incorrect.
C4_SumOfEntriesNearTotal ==
    Marked =>
        LET diff == SumMarksEarned(ret.question_wise_marks)
                        - ret.marking_summary.total_marks_earned
            k == Cardinality(IncorrectEntries(ret.question_wise_marks))
        IN  /\ 0 <= diff
            /\ 2 * diff <= k
            /\ k <= 1 => diff = 0

\* C4 witness: a marked list with correct and incorrect entries whose sum
\* differs from the reported total.
C4_Witness ==
    /\ Marked
    /\ Cardinality(IncorrectEntries(ret.question_wise_marks)) >= 2
    /\ \E i \in 1..Len(ret.question_wise_marks) :
          ret.question_wise_marks[i].marking_type = "correct"
    /\ SumMarksEarned(ret.question_wise_marks)
          = ret.marking_summary.total_marks_earned + 1

\* C5: on the empty attempt list each of the three entry points returns an
\* object holding an 'error' field and nothing else, and raises nothing.
C5_EmptyListIsStructuredError ==
    (Len(test_results) = 0 /\ op # "none") =>
        /\ op \in { "calculate_marks_with_negative_grading",
                    "analyze_strategy_effectiveness", "analyze_performance" }
        /\ DOMAIN ret = {"error"}

\* C5 witness: analyze_performance has answered the empty list with an error.
C5_Witness ==
    /\ Len(test_results) = 0
    /\ op = "analyze_performance"
    /\ "error" \in DOMAIN ret

(***************************************************************************)
(* Properties of the handling of failures (checked under Spec)             *)
(***************************************************************************)
HasMalformed(results) ==
    \E i \in 1..Len(results) : ~IsNumeric(results[i].time_taken)

\* The attempts left when the malformed ones are taken out.
WellFormed(results) ==
    LET Numeric(r) == IsNumeric(r.time_taken)
    IN  SelectSeq(results, Numeric)

\* C6: with a malformed attempt (non-numeric time_taken) in the list, analysis
\* still completes over the remaining attempts, and the malformed attempt is
\* left out of every numeric aggregate of the marking engine: the marks, the
\* question_wise_marks, the correct/incorrect/skipped counts and the
\* accuracy, attempt-rate and negative-impact ratios are those of the
\* remaining attempts.
\* (Violated: the counts and ratios run over every attempt, and
\* analyze_performance returns only an error.)
C6_MalformedAttemptExcluded ==
    (HasMalformed(test_results) /\ Len(WellFormed(test_results)) > 0) =>
        /\ op = "analyze_performance" => "error" \notin DOMAIN ret
        /\ op = "calculate_marks_with_negative_grading" =>
            LET rest == calculate_marks_with_negative_grading(
                            WellFormed(test_results))
            IN  /\ ret.marking_summary.total_marks_earned
                      = rest.marking_summary.total_marks_earned
                /\ ret.marking_summary.positive_marks
                      = rest.marking_summary.positive_marks
                /\ ret.marking_summary.negative_marks
                      = rest.marking_summary.negative_marks
                /\ Len(ret.question_wise_marks) = Len(rest.question_wise_marks)
                /\ ret.answer_distribution.correct_answers
                      = rest.answer_distribution.correct_answers
                /\ ret.answer_distribution.incorrect_answers
                      = rest.answer_distribution.incorrect_answers
                /\ ret.answer_distribution.skipped_answers
                      = rest.answer_distribution.skipped_answers
                /\ ret.efficiency_metrics.accuracy_rate
                      = rest.efficiency_metrics.accuracy_rate
                /\ ret.efficiency_metrics.attempt_rate
                      = rest.efficiency_metrics.attempt_rate
                /\ ret.efficiency_metrics.negative_impact
                      = rest.efficiency_metrics.negative_impact

\* The part of C6 the marking loop does keep: a malformed attempt adds
\* nothing to the three mark sums and has no question_wise_marks entry.
MalformedAddsNoMarks ==
    (Marked /\ HasMalformed(test_results) /\ Len(WellFormed(test_results)) > 0) =>
        LET rest == calculate_marks_with_negative_grading(WellFormed(test_results))
        IN  /\ ret.marking_summary.total_marks_earned
                  = rest.marking_summary.total_marks_earned
            /\ ret.marking_summary.positive_marks
                  = rest.marking_summary.positive_marks
            /\ ret.marking_summary.negative_marks
                  = rest.marking_summary.negative_marks
            /\ Len(ret.question_wise_marks) = Len(rest.question_wise_marks)

\* The sections of a report other than the strategy and grade sections.
OtherSections ==
    { "negative_marking_analysis", "topic_wise_analysis", "performance_trends",
      "recommendations" }

\* C7: when the Strategy Evaluator fails during analyze_performance, the
\* report still holds every other section and the strategy section alone is
\* an {'error': ...} object.
\* (Violated: the evaluator's exception reaches the outer handler, which
\* returns {'error': ...} in place of the whole report.)
C7_StrategyFailureIsConfined ==
    ( /\ op = "analyze_performance"
      /\ Len(test_results) > 0
      /\ "raised" \in DOMAIN analyze_strategy_effectiveness(test_results) ) =>
        /\ OtherSections \subseteq DOMAIN ret
        /\ "grade_assessment" \in DOMAIN ret
        /\ "strategy_analysis" \in DOMAIN ret
        /\ "error" \in DOMAIN ret.strategy_analysis

(***************************************************************************)
(* Properties of the topic classifier (checked under SpecTopic)            *)
(***************************************************************************)
SamePair(c, d) ==
    c.question_text = d.question_text /\ c.pdf_reference = d.pdf_reference

\* C8: on one analyzer, a pair classified again gets the label it got before,
\* and the later call is a cache hit that leaves the cache as it was.
C8_RepeatHitsCache ==
    \A i, j \in 1..Len(calls) :
        (i < j /\ SamePair(calls[i], calls[j])) =>
            /\ calls[j].label = calls[i].label
            /\ calls[j].hit
            /\ calls[j].after = calls[j].before

\* C8 witness: a pair classified twice in a row, the first call a miss that
\* computed a topic other than 'general'.
C8_Witness ==
    \E j \in 2..Len(calls) :
        /\ SamePair(calls[j - 1], calls[j])
        /\ ~calls[j - 1].hit
        /\ calls[j].hit
        /\ calls[j].label # "general"

\* C9: the cache holds one entry per (question_text, reference) pair: every
\* call returns the label an analyzer with an empty cache returns for its
\* pair, whatever was classified before.
\* (Violated: the key is the concatenation, so ("sig", "nal") is answered
\* from the entry of ("signal", "").)
C9_LabelIndependentOfHistory ==
    \A j \in 1..Len(calls) :
        calls[j].label
            = TopicReturned(<<>>, calls[j].question_text, calls[j].pdf_reference)

\* The largest keyword overlap any topic has with the words.
IsBestScore(m, text_words) ==
    /\ \A i \in 1..Len(TOPIC_KEYWORDS) : TopicScore(i, text_words) <= m
    /\ \/ m = 0
       \/ \E i \in 1..Len(TOPIC_KEYWORDS) : TopicScore(i, text_words) = m

\* C10: every call returns 'general' when no topic scores, and otherwise the
\* first declared topic among those with the largest overlap with the
\* lower-cased whitespace tokens of text plus reference.
\* (Violated through the cache of C9: ("sig", "nal") after ("signal", "")
\* returns 'signals' though no topic scores.)
C10_ReturnsFirstBestTopic ==
    \A j \in 1..Len(calls) :
        LET words == TextWords(calls[j].question_text, calls[j].pdf_reference)
        IN  IF IsBestScore(0, words) THEN calls[j].label = "general"
            ELSE \E i \in 1..Len(TOPIC_KEYWORDS) :
                    /\ calls[j].label = TOPIC_KEYWORDS[i].topic
                    /\ IsBestScore(TopicScore(i, words), words)
                    /\ \A k \in 1..(i - 1) :
                          TopicScore(k, words) < TopicScore(i, words)

\* On a cache miss the label is the first best topic (the computation itself
\* is as C10 states it).
MissReturnsFirstBestTopic ==
    \A j \in 1..Len(calls) :
        ~calls[j].hit =>
            LET words == TextWords(calls[j].question_text,
                                   calls[j].pdf_reference)
            IN  IF IsBestScore(0, words) THEN calls[j].label = "general"
                ELSE \E i \in 1..Len(TOPIC_KEYWORDS) :
                        /\ calls[j].label = TOPIC_KEYWORDS[i].topic
                        /\ IsBestScore(TopicScore(i, words), words)
                        /\ \A k \in 1..(i - 1) :
                              TopicScore(k, words) < TopicScore(i, words)

(***************************************************************************)
(* Properties of the trends (checked under SpecTiming)                     *)
(***************************************************************************)
\* The positions of the attempts that are not skipped.
Answered(results) == {i \in 1..Len(results) : ~results[i].is_skipped}

\* One of the two trend analyses has returned.
TrendReturned == op \in {"_analyze_time_trend", "_analyze_accuracy_trend"}

\* The numeric fields of a trend result.
TrendNumericFields ==
    { "change_percentage", "first_third_avg_time", "last_third_avg_time",
      "first_third_accuracy", "last_third_accuracy" }

\* C11: for every attempt list with fewer than 3 non-skipped attempts (the
\* empty list and lists with malformed times included) the time trend and
\* the accuracy trend return trend = 'insufficient_data' with no numeric
\* field, and do not raise.
C11_FewAnsweredIsInsufficientData ==
    (TrendReturned /\ Cardinality(Answered(test_results)) < 3) =>
        /\ "raised" \notin DOMAIN ret
        /\ "trend" \in DOMAIN ret
        /\ ret.trend = "insufficient_data"
        /\ DOMAIN ret \cap TrendNumericFields = {}

\* The time trend of three attempts, one of them skipped and one with a
\* malformed time, is 'insufficient_data'.
C11_Witness ==
    /\ op = "_analyze_time_trend"
    /\ Len(test_results) = 3
    /\ Cardinality(Answered(test_results)) = 2
    /\ \E i \in Answered(test_results) : ~IsNumeric(test_results[i].time_taken)
    /\ ret.trend = "insufficient_data"

(***************************************************************************)
(* Properties of the strategy evaluator (checked under Spec)               *)
(***************************************************************************)
\* analyze_strategy_effectiveness has returned a strategy report.
StrategyReported ==
    /\ op = "analyze_strategy_effectiveness"
    /\ "alternative_strategies" \in DOMAIN ret

\* C12: for every non-empty attempt list with no skipped attempt, the
\* aggressive marks of the strategy report equal its current marks exactly and
\* the aggressive difference is 0.
C12_NoSkippedAggressiveIsCurrent ==
    ( /\ StrategyReported
      /\ Len(test_results) > 0
      /\ \A i \in 1..Len(test_results) : ~test_results[i].is_skipped ) =>
        /\ ret.alternative_strategies.aggressive.marks
               = ret.current_performance.marks
        /\ ret.alternative_strategies.aggressive.difference = 0

\* A report for three answered attempts, two of them incorrect, whose
\* aggressive marks are the current marks 1 - 2/3 = 0.333.
C12_Witness ==
    /\ StrategyReported
    /\ Len(test_results) = 3
    /\ \A i \in 1..3 : ~test_results[i].is_skipped
    /\ Cardinality({i \in 1..3 : ~test_results[i].is_correct}) = 2
    /\ ret.current_performance.marks = 333
    /\ ret.alternative_strategies.aggressive.marks = 333

(***************************************************************************)
(* Properties of the grade (checked under SpecGrade)                       *)
(***************************************************************************)
\* _calculate_comprehensive_grade has returned.
Graded == op = "_calculate_comprehensive_grade"

\* The three adjustments reported are all 0.
NeutralAdjustments ==
    /\ ret.score_components.strategy_adjustment = 0
    /\ ret.score_components.attempt_rate_adjustment = 0
    /\ ret.score_components.time_management_adjustment = 0

\* The grade the thresholds of the specification give a score in hundredths.
GradeByThresholds(score) ==
    CASE score >= 8500 -> "A+"
      [] score < 8500 /\ score >= 7500 -> "A"
      [] score < 7500 /\ score >= 6500 -> "B+"
      [] score < 6500 /\ score >= 5000 -> "B"
      [] score < 5000 /\ score >= 3500 -> "C"
      [] score < 3500 -> "D"

\* C13: the letter grade is determined by the final score alone, with the
\* thresholds >= 85 A+, >= 75 A, >= 65 B+, >= 50 B, >= 35 C, else D; a marking
\* percentage of exactly 85 with the three adjustments 0 gives A+, and 84.99
\* with the same adjustments gives A.
C13_GradeByFinalScore ==
    Graded =>
        /\ ret.letter_grade = GradeByThresholds(ret.overall_score)
        /\ (NeutralAdjustments /\ calls[1].score_percentage = 8500)
               => ret.letter_grade = "A+"
        /\ (NeutralAdjustments /\ calls[1].score_percentage = 8499)
               => ret.letter_grade = "A"

\* A call with a marking percentage of exactly 85 and neutral adjustments,
\* graded A+.
C13_Witness ==
    /\ Graded
    /\ NeutralAdjustments
    /\ calls[1].score_percentage = 8500
    /\ ret.overall_score = 8500
    /\ ret.letter_grade = "A+"

\* The rules of the readiness tiers, on the final score reported and the
\* arguments of the call.
ReadyRule ==
    /\ ret.overall_score >= 7500
    /\ calls[1].marking_analysis.efficiency_metrics.attempt_rate > 8000
    /\ calls[1].marking_analysis.efficiency_metrics.correct_attempt_ratio > 7000
    /\ calls[1].avg_time.n < 50 * calls[1].avg_time.d

AlmostReadyRule ==
    /\ ret.overall_score >= 6000
    /\ calls[1].marking_analysis.efficiency_metrics.attempt_rate > 7000
    /\ calls[1].marking_analysis.efficiency_metrics.correct_attempt_ratio > 6000

NeedsImprovementRule ==
    /\ ret.overall_score >= 4500
    /\ calls[1].marking_analysis.efficiency_metrics.attempt_rate > 6000

\* The cap of the confidence score of a tier, in hundredths.
TierCap(readiness_level) ==
    CASE readiness_level = "ready" -> 9500
      [] readiness_level = "almost_ready" -> 8500
      [] readiness_level = "needs_improvement" -> 7500
      [] readiness_level = "significant_preparation_needed" -> 6000

\* C14: every (final score, attempt_rate, correct_attempt_ratio, avg_time) is
\* given exactly one readiness tier, the first whose rule matches in the order
\* ready, almost_ready, needs_improvement, else
\* significant_preparation_needed; the confidence score never exceeds the cap
\* of the tier (95, 85, 75, 60).
C14_OneTierByFirstMatch ==
    Graded =>
        /\ ret.gate_readiness.readiness_level \in
               { "ready", "almost_ready", "needs_improvement",
                 "significant_preparation_needed" }
        /\ (ret.gate_readiness.readiness_level = "ready") <=> ReadyRule
        /\ (ret.gate_readiness.readiness_level = "almost_ready")
               <=> (~ReadyRule /\ AlmostReadyRule)
        /\ (ret.gate_readiness.readiness_level = "needs_improvement")
               <=> (~ReadyRule /\ ~AlmostReadyRule /\ NeedsImprovementRule)
        /\ (ret.gate_readiness.readiness_level = "significant_preparation_needed")
               <=> (~ReadyRule /\ ~AlmostReadyRule /\ ~NeedsImprovementRule)
        /\ ret.gate_readiness.confidence_score
               <= TierCap(ret.gate_readiness.readiness_level)

\* A call that matches all three rules and is given the first tier, with the
\* confidence score at its cap of 95.
C14_Witness ==
    /\ Graded
    /\ ReadyRule /\ AlmostReadyRule /\ NeedsImprovementRule
    /\ ret.gate_readiness.readiness_level = "ready"
    /\ ret.gate_readiness.confidence_score = 9500

(***************************************************************************)
(* Frame of the analysis (checked under Spec)                              *)
(***************************************************************************)
\* C15: analyze_performance and every component it calls leave the attempt
\* records unchanged: after the call the list has the same length, order and
\* field values as before, on the success path and on the error path.
C15_AttemptsUnchanged == [][test_results' = test_results]_vars

\* analyze_performance has returned a full report for three attempts, one of
\* them skipped, and the list still holds the three attempts.
C15_Witness ==
    /\ op = "analyze_performance"
    /\ "grade_assessment" \in DOMAIN ret
    /\ Len(test_results) = 3
    /\ \E i \in 1..3 : test_results[i].is_skipped
    /\ ret.overall_performance.total_questions = 3

\* analyze_performance has returned its error object for a list with a
\* malformed time, and the list still holds the malformed attempt.
C15_ErrorPathReached ==
    /\ op = "analyze_performance"
    /\ DOMAIN ret = {"error"}
    /\ \E i \in 1..Len(test_results) : ~IsNumeric(test_results[i].time_taken)

(***************************************************************************)
(* Properties of the timing aggregates (checked under SpecTiming)          *)
(***************************************************************************)
\* The positions of the answered attempts whose time is a number in [0, 300].
Accepted(results) ==
    {i \in Answered(results) :
        /\ IsNumeric(results[i].time_taken)
        /\ 0 <= results[i].time_taken.v
        /\ results[i].time_taken.v <= 300}

\* The sum of the times of the attempts at the positions idx among the first n.
RECURSIVE SumTimes(_, _, _)
SumTimes(results, idx, n) ==
    IF n = 0 THEN 0
    ELSE SumTimes(results, idx, n - 1)
            + (IF n \in idx THEN results[n].time_taken.v ELSE 0)

\* The mean time of the attempts at the positions idx, rounded to hundredths
\* (0 when there is none).
MeanTime(results, idx) ==
    IF idx = {} THEN 0
    ELSE RoundHalfEven(100 * SumTimes(results, idx, Len(results)),
                       Cardinality(idx))

\* m (in hundredths) is a median of the times at the positions idx.
IsMedianTime(results, idx, m) ==
    IF idx = {} THEN m = 0
    ELSE /\ 2 * Cardinality({i \in idx : 100 * results[i].time_taken.v <= m})
               >= Cardinality(idx)
         /\ 2 * Cardinality({i \in idx : 100 * results[i].time_taken.v >= m})
               >= Cardinality(idx)

\* The rank of position i among the answered attempts.
AnsweredRank(results, i) == Cardinality({j \in Answered(results) : j <= i})

\* The positions of the first and of the last n // 3 answered attempts.
FirstThirdPositions(results) ==
    {i \in Answered(results) :
        AnsweredRank(results, i) <= Cardinality(Answered(results)) \div 3}

LastThirdPositions(results) ==
    {i \in Answered(results) :
        AnsweredRank(results, i) >
            Cardinality(Answered(results))
                - (Cardinality(Answered(results)) \div 3)}

\* The positions of the attempts classified under a topic.
PositionsOfTopic(results, topic) ==
    {i \in 1..Len(results) :
        ComputeTopic(results[i].question, results[i].pdf_reference) = topic}

\* C16: an attempt whose time_taken lies outside [0, 300] is excluded from
\* every timing aggregate (overall average and median time, per-topic average
\* time, first-third and last-third means of the time trend) but is still
\* scored by the marking engine like any other attempt.
C16_OutOfRangeTimeExcluded ==
    /\ (op = "analyze_performance" /\ "overall_performance" \in DOMAIN ret) =>
          /\ ret.overall_performance.average_time_per_question_seconds
                 = MeanTime(test_results, Accepted(test_results))
          /\ IsMedianTime(test_results, Accepted(test_results),
                 ret.overall_performance.median_time_per_question_seconds)
          /\ \A k \in 1..Len(ret.topic_wise_analysis) :
                 ret.topic_wise_analysis[k].data.average_time_seconds
                    = MeanTime(test_results,
                          Accepted(test_results)
                             \cap PositionsOfTopic(test_results,
                                      ret.topic_wise_analysis[k].topic))
    /\ (op = "_analyze_time_trend" /\ "first_third_avg_time" \in DOMAIN ret) =>
          /\ (Accepted(test_results) \cap FirstThirdPositions(test_results) # {})
                 => ret.first_third_avg_time
                       = MeanTime(test_results,
                             Accepted(test_results)
                                \cap FirstThirdPositions(test_results))
          /\ (Accepted(test_results) \cap LastThirdPositions(test_results) # {})
                 => ret.last_third_avg_time
                       = MeanTime(test_results,
                             Accepted(test_results)
                                \cap LastThirdPositions(test_results))
    /\ (op = "calculate_marks_with_negative_grading"
           /\ "question_wise_marks" \in DOMAIN ret) =>
          \A i \in Scored(test_results) :
              \E k \in 1..Len(ret.question_wise_marks) :
                  /\ ret.question_wise_marks[k].question_number = i
                  /\ ret.question_wise_marks[k].time_taken
                         = test_results[i].time_taken.v

\* The parts of C16 the code keeps: the overall average and median leave the
\* out-of-range times out, and the marking engine scores those attempts.
OverallTimesExcludeOutOfRange ==
    /\ (op = "analyze_performance" /\ "overall_performance" \in DOMAIN ret) =>
          /\ ret.overall_performance.average_time_per_question_seconds
                 = MeanTime(test_results, Accepted(test_results))
          /\ IsMedianTime(test_results, Accepted(test_results),
                 ret.overall_performance.median_time_per_question_seconds)
    /\ (op = "calculate_marks_with_negative_grading"
           /\ "question_wise_marks" \in DOMAIN ret) =>
          \A i \in Scored(test_results) :
              \E k \in 1..Len(ret.question_wise_marks) :
                  ret.question_wise_marks[k].question_number = i

(***************************************************************************)
(* Properties of the recommendations (checked under SpecTiming)            *)
(***************************************************************************)
\* analyze_performance has returned a full report.
Reported ==
    /\ op = "analyze_performance"
    /\ "recommendations" \in DOMAIN ret

\* The overall average time is under 45 s (it is 0 when no time is accepted).
AverageTimeUnder45 ==
    \/ Accepted(test_results) = {}
    \/ SumTimes(test_results, Accepted(test_results), Len(test_results))
           < 45 * Cardinality(Accepted(test_results))

\* The difficulty level the rule of the specification gives a score in
\* hundredths, in the state of the report.
DifficultyFor(score) ==
    IF /\ score >= 7500
       /\ AverageTimeUnder45
       /\ 10 * Cardinality(Answered(test_results)) > 8 * Len(test_results)
    THEN "advanced"
    ELSE IF /\ score >= 5000
            /\ 10 * Cardinality(Answered(test_results)) > 6 * Len(test_results)
    THEN "medium"
    ELSE "easy"

\* C17: the suggested next difficulty level is 'advanced' exactly when the
\* final (adjusted) grade score is >= 75, avg_time < 45 and the attempt rate
\* is > 0.8; otherwise 'medium' when the score is >= 50 and the attempt rate
\* is > 0.6; otherwise 'easy'.
C17_DifficultyFromFinalScore ==
    Reported =>
        ret.recommendations.next_difficulty_level
            = DifficultyFor(ret.grade_assessment.overall_score)

\* What the code does: the same rule on the marking percentage, before the
\* adjustments of the grade.
DifficultyFromMarkingPercentage ==
    Reported =>
        ret.recommendations.next_difficulty_level
            = DifficultyFor(ret.overall_performance.score_percentage)

(***************************************************************************)
(* The final score of the grade (checked under SpecGrade)                  *)
(***************************************************************************)
\* base_score of the call: max(0, marking percentage), in hundredths.
BaseScoreOfCall ==
    IF calls[1].score_percentage < 0 THEN 0 ELSE calls[1].score_percentage

\* The three adjustments the rules of the specification give the call.
StrategyAdjustmentOfCall ==
    CASE calls[1].marking_analysis.efficiency_metrics.negative_impact > 1500
            -> -10
      [] /\ calls[1].marking_analysis.efficiency_metrics.negative_impact <= 1500
         /\ calls[1].marking_analysis.efficiency_metrics.negative_impact > 1000
            -> -5
      [] OTHER -> 0

AttemptAdjustmentOfCall ==
    CASE /\ calls[1].marking_analysis.efficiency_metrics.attempt_rate > 8500
         /\ BaseScoreOfCall > 6000
            -> 5
      [] calls[1].marking_analysis.efficiency_metrics.attempt_rate < 6000 -> -5
      [] OTHER -> 0

TimeAdjustmentOfCall ==
    CASE calls[1].avg_time.n < 35 * calls[1].avg_time.d -> 3
      [] calls[1].avg_time.n > 55 * calls[1].avg_time.d -> -3
      [] OTHER -> 0

\* base_score plus the three adjustments, in hundredths, before the clamp.
AdjustedScoreOfCall ==
    BaseScoreOfCall
        + 100 * (StrategyAdjustmentOfCall + AttemptAdjustmentOfCall
                 + TimeAdjustmentOfCall)

\* C18: the final grade score is base_score = max(0, marking percentage)
\* plus three additive adjustments, clamped to [0, 100]: negative_impact > 15
\* gives -10, > 10 gives -5, else 0; attempt_rate > 85 with base_score > 60
\* gives +5, attempt_rate < 60 gives -5, else 0; avg_time < 35 gives +3, > 55
\* gives -3, else 0.  The overall_score reported is always in [0, 100].
C18_FinalScoreIsClampedSum ==
    Graded =>
        /\ ret.score_components.base_score = BaseScoreOfCall
        /\ ret.score_components.strategy_adjustment = StrategyAdjustmentOfCall
        /\ ret.score_components.attempt_rate_adjustment = AttemptAdjustmentOfCall
        /\ ret.score_components.time_management_adjustment = TimeAdjustmentOfCall
        /\ ret.overall_score =
               (IF AdjustedScoreOfCall < 0 THEN 0
                ELSE IF AdjustedScoreOfCall > 10000 THEN 10000
                ELSE AdjustedScoreOfCall)
        /\ ret.overall_score >= 0
        /\ ret.overall_score <= 10000

\* A call with a marking percentage of 110 and the adjustments +5 and +3:
\* the sum 118 is reported as 100.
C18_Witness ==
    /\ Graded
    /\ calls[1].score_percentage = 11000
    /\ ret.score_components.attempt_rate_adjustment = 5
    /\ ret.score_components.time_management_adjustment = 3
    /\ ret.score_components.strategy_adjustment = 0
    /\ ret.overall_score = 10000

\* A call with a marking percentage of 0 and all three penalties: the sum
\* -18 is reported as 0.
C18_LowerClampReached ==
    /\ Graded
    /\ AdjustedScoreOfCall = -1800
    /\ ret.overall_score = 0

(***************************************************************************)
(* The strategy type (checked under SpecTiming)                            *)
(***************************************************************************)
\* The attempts that are neither correct nor skipped, and the skipped ones.
IncorrectPositions(results) ==
    {i \in 1..Len(results) : ~results[i].is_correct /\ ~results[i].is_skipped}

SkippedPositions(results) == {i \in 1..Len(results) : results[i].is_skipped}

\* The strategy type the thresholds of the specification give a list:
\* 20 % of the total is total / 5, 40 % is 2 * total / 5.
TypeByThresholds(results) ==
    IF /\ 5 * Cardinality(IncorrectPositions(results)) > Len(results)
       /\ 5 * Cardinality(SkippedPositions(results)) < Len(results)
    THEN "more_conservative"
    ELSE IF 5 * Cardinality(SkippedPositions(results)) > 2 * Len(results)
    THEN "more_aggressive"
    ELSE "balanced"

\* The advisory string fixed for a strategy type.
AdvisoryFor(strategy_type) ==
    CASE strategy_type = "more_conservative" ->
            "Consider skipping questions you're less confident about"
      [] strategy_type = "more_aggressive" ->
            "Try to attempt more questions with educated guessing"
      [] strategy_type = "balanced" ->
            "Good balance between attempting and skipping"

\* C19: the strategy type is 'more_conservative' when the incorrect count is
\* > 20 % of the total and the skipped count < 20 % of the total; otherwise
\* 'more_aggressive' when the skipped count is > 40 % of the total; otherwise
\* 'balanced'; every report carries exactly one advisory string, the one fixed
\* for its strategy type.
C19_StrategyTypeByThresholds ==
    StrategyReported =>
        /\ ret.current_performance.strategy_type = TypeByThresholds(test_results)
        /\ ret.recommendations
               = <<AdvisoryFor(ret.current_performance.strategy_type)>>

\* Five attempts, two incorrect and one skipped: the skipped count is exactly
\* 20 % of the total, so the list is not 'more_conservative' but 'balanced'.
C19_Witness ==
    /\ StrategyReported
    /\ Len(test_results) = 5
    /\ Cardinality(IncorrectPositions(test_results)) = 2
    /\ Cardinality(SkippedPositions(test_results)) = 1
    /\ ret.current_performance.strategy_type = "balanced"

\* Five attempts, two of them skipped: exactly 40 % of the total, so the list
\* is not 'more_aggressive'.
C19_FortyPercentReached ==
    /\ StrategyReported
    /\ Len(test_results) = 5
    /\ Cardinality(SkippedPositions(test_results)) = 2
    /\ ret.current_performance.strategy_type = "balanced"

(***************************************************************************)
(* The thirds of the trends (checked under SpecTiming)                     *)
(***************************************************************************)
\* The answered attempts that are in neither third.
MiddlePositions(results) ==
    Answered(results)
        \ (FirstThirdPositions(results) \cup LastThirdPositions(results))

\* The list with the attempt at position i replaced, with the attempt at
\* position i removed, and with an attempt inserted after position k.
ReplaceAt(results, i, attempt) == [results EXCEPT ![i] = attempt]

RemoveAt(results, i) ==
    SubSeq(results, 1, i - 1) \o SubSeq(results, i + 1, Len(results))

InsertAfter(results, k, attempt) ==
    SubSeq(results, 1, k) \o <<attempt>> \o SubSeq(results, k + 1, Len(results))

\* What the trend analysis that has returned gives another list.
TrendOf(results) ==
    IF op = "_analyze_time_trend" THEN analyze_time_trend(results)
    ELSE analyze_accuracy_trend(results)

\* The accuracy, in hundredths of a percent, of the attempts at the
\* positions idx.
AccuracyAt(results, idx) ==
    RoundHalfEven(100 * 100 * Cardinality({i \in idx : results[i].is_correct}),
                  Cardinality(idx))

\* C20: for n >= 3 non-skipped attempts both trend analyses compare exactly
\* the first n // 3 and the last n // 3 non-skipped attempts, in input order;
\* the two groups are disjoint and non-empty, and the skipped attempts and
\* the middle n - 2 * (n // 3) non-skipped attempts have no influence on the
\* result.
C20_TrendsCompareOuterThirds ==
    (TrendReturned /\ Cardinality(Answered(test_results)) >= 3) =>
        /\ FirstThirdPositions(test_results) # {}
        /\ LastThirdPositions(test_results) # {}
        /\ FirstThirdPositions(test_results)
               \cap LastThirdPositions(test_results) = {}
        /\ Cardinality(FirstThirdPositions(test_results))
               = Cardinality(Answered(test_results)) \div 3
        /\ Cardinality(LastThirdPositions(test_results))
               = Cardinality(Answered(test_results)) \div 3
        \* the means compared are those of the two groups
        /\ "first_third_avg_time" \in DOMAIN ret =>
               /\ ret.first_third_avg_time
                      = MeanTime(test_results, FirstThirdPositions(test_results))
               /\ ret.last_third_avg_time
                      = MeanTime(test_results, LastThirdPositions(test_results))
        /\ "first_third_accuracy" \in DOMAIN ret =>
               /\ ret.first_third_accuracy
                      = AccuracyAt(test_results, FirstThirdPositions(test_results))
               /\ ret.last_third_accuracy
                      = AccuracyAt(test_results, LastThirdPositions(test_results))
        \* another answered attempt in the middle gives the same result
        /\ \A i \in MiddlePositions(test_results) :
               \A attempt \in {a \in TimedAttempts : ~a.is_skipped} :
                   TrendOf(ReplaceAt(test_results, i, attempt)) = ret
        \* so does the list without one of its skipped attempts
        /\ \A i \in SkippedPositions(test_results) :
               TrendOf(RemoveAt(test_results, i)) = ret
        \* and the list with one more skipped attempt, wherever it is put
        /\ \A k \in 0..Len(test_results) :
               \A attempt \in {a \in TimedAttempts : a.is_skipped} :
                   TrendOf(InsertAfter(test_results, k, attempt)) = ret

\* The time trend of six attempts, one of them skipped: five are answered,
\* the first (20 s) is compared with the last (40 s), three are in the middle.
C20_Witness ==
    /\ op = "_analyze_time_trend"
    /\ Len(test_results) = 6
    /\ Cardinality(Answered(test_results)) = 5
    /\ Cardinality(MiddlePositions(test_results)) = 3
    /\ \E i \in MiddlePositions(test_results) :
           test_results[i].time_taken.v = 40
    /\ ret.first_third_avg_time = 2000
    /\ ret.last_third_avg_time = 4000
    /\ ret.trend = "significantly_slower"

\* The accuracy trend of six answered attempts: two in each third.
C20_TwoPerThirdReached ==
    /\ op = "_analyze_accuracy_trend"
    /\ Cardinality(Answered(test_results)) = 6
    /\ Cardinality(FirstThirdPositions(test_results)) = 2
    /\ ret.first_third_accuracy = 5000
    /\ ret.last_third_accuracy = 10000


(***************************************************************************)
(* Thresholds of the time trend (checked under SpecTrend)                  *)
(***************************************************************************)
\* The sum of the times of the first and of the last third of the answered
\* attempts; both thirds hold the same number of attempts, so the percent
\* change of the means is 100 * (last - first) / first.
FirstThirdSum(results) ==
    SumTimes(results, FirstThirdPositions(results), Len(results))

LastThirdSum(results) ==
    SumTimes(results, LastThirdPositions(results), Len(results))

\* The label the stated thresholds give to the change from first to last.
LabelByThresholds(first, last) ==
    IF first = 0 THEN "consistent"
    ELSE IF 100 * (last - first) < -15 * first THEN "significantly_faster"
    ELSE IF 100 * (last - first) < -5 * first THEN "getting_faster"
    ELSE IF 100 * (last - first) > 15 * first THEN "significantly_slower"
    ELSE IF 100 * (last - first) > 5 * first THEN "getting_slower"
    ELSE "consistent"

ConfidenceByThreshold(first, last) ==
    IF first # 0 /\ Abs(100 * (last - first)) > 10 * first
    THEN "high" ELSE "medium"

\* The next stronger label on the side of the change.
StrongerLabel(first, last) ==
    IF last < first
    THEN (IF LabelByThresholds(first, last) = "consistent"
          THEN "getting_faster" ELSE "significantly_faster")
    ELSE (IF LabelByThresholds(first, last) = "consistent"
          THEN "getting_slower" ELSE "significantly_slower")

\* The change is exactly -15, -5, 5 or 15 percent; exactly -10 or 10.
OnLabelThreshold(first, last) ==
    first # 0 /\ 100 * Abs(last - first) \in {5 * first, 15 * first}

OnConfidenceThreshold(first, last) ==
    first # 0 /\ 100 * Abs(last - first) = 10 * first

\* Both means are whole numbers of seconds.
WholeMeans(results) ==
    LET third == Cardinality(FirstThirdPositions(results))
    IN  /\ FirstThirdSum(results) % third = 0
        /\ LastThirdSum(results) % third = 0

\* C21 as stated: the time-trend label is a function of the percent change
\* between the first-third and the last-third mean time: below -15
\* significantly_faster, below -5 getting_faster, above +15
\* significantly_slower, above +5 getting_slower, else consistent; the
\* confidence is 'high' exactly when the magnitude of the change exceeds 10,
\* else 'medium'; when the first-third mean is 0 the change is taken as 0 and
\* the label is 'consistent'.  (Violated: the thirds 6, 7, 7 and 6, 6, 7 have
\* means 20/3 and 19/3, a change of exactly -5 percent, and are labelled
\* 'getting_faster': the program's float change is -5.000000000000009.)
C21_TimeTrendByPercentChange ==
    (op = "_analyze_time_trend" /\ Cardinality(Answered(test_results)) >= 3) =>
        /\ ret.trend = LabelByThresholds(FirstThirdSum(test_results),
                                         LastThirdSum(test_results))
        /\ ret.confidence = ConfidenceByThreshold(FirstThirdSum(test_results),
                                                  LastThirdSum(test_results))
        /\ (FirstThirdSum(test_results) = 0) => ret.change_percentage = 0

\* C21 (amended): the time-trend label and the confidence follow the stated
\* thresholds of the percent change whenever the change is not exactly on a
\* threshold, and also on a threshold when both means are whole numbers
\* (exactly -15, -5, 5 or 15 then falls to the milder label, exactly -10 or
\* 10 to 'medium'); a change exactly on a threshold between means that are
\* not whole numbers gets the milder or the next stronger label, and either
\* confidence, as the rounding of the float change decides; when the
\* first-third mean is 0 the change is taken as 0 and the label is
\* 'consistent'.
C21_TimeTrendByComputedChange ==
    (op = "_analyze_time_trend" /\ Cardinality(Answered(test_results)) >= 3) =>
        LET first == FirstThirdSum(test_results)
            last  == LastThirdSum(test_results)
        IN  /\ (WholeMeans(test_results) \/ ~OnLabelThreshold(first, last)) =>
                    ret.trend = LabelByThresholds(first, last)
            /\ OnLabelThreshold(first, last) =>
                    ret.trend \in { LabelByThresholds(first, last),
                                    StrongerLabel(first, last) }
            /\ (WholeMeans(test_results) \/ ~OnConfidenceThreshold(first, last)) =>
                    ret.confidence = ConfidenceByThreshold(first, last)
            /\ ret.confidence \in {"high", "medium"}
            /\ (first = 0) => (ret.change_percentage = 0 /\ ret.trend = "consistent")

\* C21 witness: the trend of nine answered attempts whose thirds sum to 20
\* and 19 seconds has been computed: the reported change is -5.00 and the
\* label is 'getting_faster'.
C21_Witness ==
    /\ op = "_analyze_time_trend"
    /\ Cardinality(Answered(test_results)) = 9
    /\ FirstThirdSum(test_results) = 20
    /\ LastThirdSum(test_results) = 19
    /\ ret.change_percentage = -500
    /\ ret.trend = "getting_faster"
    /\ ret.confidence = "medium"

\* The trend of a list whose last answer took exactly 15 % less than the
\* first one has been computed: the milder label, with high confidence.
C21_WholeMeansOnThresholdReached ==
    /\ op = "_analyze_time_trend"
    /\ Cardinality(Answered(test_results)) = 3
    /\ FirstThirdSum(test_results) = 100
    /\ LastThirdSum(test_results) = 85
    /\ ret.trend = "getting_faster"
    /\ ret.confidence = "high"

\* Nine answered attempts on the confidence threshold: thirds summing to 10
\* and 9 seconds, a change of exactly -10 percent, reported with 'high'.
C21_ThirdsOnConfidenceThresholdReached ==
    /\ op = "_analyze_time_trend"
    /\ Cardinality(Answered(test_results)) = 9
    /\ FirstThirdSum(test_results) = 10
    /\ LastThirdSum(test_results) = 9
    /\ ret.change_percentage = -1000
    /\ ret.confidence = "high"

\* The trend of a list whose first answer took no time has been computed,
\* and of lists on each side of the confidence threshold.
C21_ZeroFirstMeanReached ==
    /\ op = "_analyze_time_trend"
    /\ FirstThirdSum(test_results) = 0
    /\ LastThirdSum(test_results) = 116
    /\ ret.trend = "consistent"
    /\ ret.confidence = "medium"

C21_ConfidenceThresholdReached ==
    /\ op = "_analyze_time_trend"
    /\ FirstThirdSum(test_results) = 20
    /\ LastThirdSum(test_results) = 22
    /\ ret.trend = "getting_slower"
    /\ ret.confidence = "medium"

(***************************************************************************)
(* Properties of the topic aggregator (checked under SpecRecorded)         *)
(***************************************************************************)
\* analyze_performance has returned a report: the aggregator has run on the
\* list and its return value is the report's topic_wise_analysis.
TopicsReturned ==
    /\ op = "analyze_performance"
    /\ "topic_wise_analysis" \in DOMAIN ret

\* The aggregator only ever runs on numeric times: the strategy evaluator,
\* called before it, compares every time_taken with 40 (line 301), and on a
\* string that raises into the handler of analyze_performance.
AggregatorTimesNumeric ==
    TopicsReturned =>
        \A i \in 1..Len(test_results) : IsNumeric(test_results[i].time_taken)

RECURSIVE SumTotals(_, _)
\* The sum of questions_total over the first n buckets.
SumTotals(topic_analysis, n) ==
    IF n = 0 THEN 0
    ELSE SumTotals(topic_analysis, n - 1)
            + topic_analysis[n].data.questions_total

\* The bucket identities of one (topic, data) pair over the attempt list.
BucketIdentities(results, bucket) ==
    LET members   == PositionsOfTopic(results, bucket.topic)
        skipped   == {i \in members : results[i].is_skipped}
        attempted == members \ skipped
        correct   == Cardinality({i \in attempted : results[i].is_correct})
        marks     == correct * MarkScale
                        - (Cardinality(attempted) - correct) * (MarkScale \div 3)
    IN  /\ bucket.data.questions_total = Cardinality(members)
        /\ bucket.data.questions_skipped = Cardinality(skipped)
        /\ bucket.data.questions_attempted = Cardinality(attempted)
        /\ bucket.data.questions_total
              = bucket.data.questions_attempted + bucket.data.questions_skipped
        /\ bucket.data.correct_answers = correct
        /\ bucket.data.marks_earned = Round3(marks)
        /\ bucket.data.accuracy_percentage
              = (IF attempted = {} THEN 0
                 ELSE RoundPct(correct, Cardinality(attempted)))
        /\ bucket.data.score_percentage
              = Max(-100 * 100,
                    RoundHalfEven(marks * 100 * 100,
                                  Cardinality(members) * MarkScale))
        /\ bucket.data.average_time_seconds = MeanTime(results, attempted)

\* C22: the topic aggregator assigns every attempt to exactly one topic
\* bucket (the bucket totals sum to the number of attempts); per bucket
\* total = attempted + skipped, marks = correct - (attempted - correct)/3
\* with no speed bonus, accuracy_percentage = correct/attempted x 100 (0 when
\* none attempted), score_percentage = marks/total x 100 floored at -100, and
\* average_time_seconds is the mean of the non-skipped times or 0.
C22_BucketIdentities ==
    TopicsReturned =>
        /\ SumTotals(ret.topic_wise_analysis, Len(ret.topic_wise_analysis))
              = Len(test_results)
        /\ \A j, k \in 1..Len(ret.topic_wise_analysis) :
              ret.topic_wise_analysis[j].topic = ret.topic_wise_analysis[k].topic
                  => j = k
        /\ \A i \in 1..Len(test_results) :
              \E k \in 1..Len(ret.topic_wise_analysis) :
                  i \in PositionsOfTopic(test_results,
                                         ret.topic_wise_analysis[k].topic)
        /\ \A k \in 1..Len(ret.topic_wise_analysis) :
              BucketIdentities(test_results, ret.topic_wise_analysis[k])

\* The aggregator has returned two buckets for three attempts, one of them
\* skipped: one bucket holds a fast correct answer (marks 1.0, no bonus) and
\* an incorrect one at 40 s, the other the skipped attempt alone.
C22_Witness ==
    /\ TopicsReturned
    /\ Len(test_results) = 3
    /\ Len(ret.topic_wise_analysis) = 2
    /\ \E j, k \in 1..2 :
          /\ ret.topic_wise_analysis[j].data.questions_attempted = 2
          /\ ret.topic_wise_analysis[j].data.correct_answers = 1
          /\ ret.topic_wise_analysis[j].data.marks_earned = 667
          /\ ret.topic_wise_analysis[j].data.average_time_seconds = 30 * 100
          /\ ret.topic_wise_analysis[k].data.questions_skipped = 1
          /\ ret.topic_wise_analysis[k].data.questions_attempted = 0
          /\ ret.topic_wise_analysis[k].data.accuracy_percentage = 0
          /\ ret.topic_wise_analysis[k].data.average_time_seconds = 0

(***************************************************************************)
(* The difficulty label of a topic (checked under SpecDifficulty)          *)
(***************************************************************************)
DifficultyReturned == op = "_assess_topic_difficulty"

DifficultyLabels ==
    { "insufficient_data", "very_difficult_avoid", "difficult_risky",
      "time_consuming_risky", "comfortable_strength", "moderate" }

\* The rules in the stated order, on the arguments of a call: score% is
\* 100 * marks / total_questions, compared by cross-multiplication; slow and
\* quick are the outcomes of the two comparisons of the times.
MatchingDifficulty(call, slow, quick) ==
    LET marks100  == call.marks * 100
        unit      == call.total_questions * MarkScale
        inaccurate == call.accuracy.n < 50 * call.accuracy.d
    IN  IF call.total_questions = 0 THEN "insufficient_data"
        ELSE IF marks100 < -10 * unit THEN "very_difficult_avoid"
        ELSE IF marks100 < 10 * unit THEN "difficult_risky"
        ELSE IF inaccurate /\ slow THEN "time_consuming_risky"
        ELSE IF marks100 > 70 * unit /\ quick THEN "comfortable_strength"
        ELSE "moderate"

\* The topic time is exactly 1.3 x, or exactly 0.9 x, the overall average.
OnSlowThreshold(call) ==
    10 * call.topic_time.n * call.overall_avg.d
        = 13 * call.overall_avg.n * call.topic_time.d

OnQuickThreshold(call) ==
    10 * call.topic_time.n * call.overall_avg.d
        = 9 * call.overall_avg.n * call.topic_time.d

\* The comparisons of the times as stated: strict.
FirstMatchingDifficulty(call) ==
    MatchingDifficulty(call,
        10 * call.topic_time.n * call.overall_avg.d
            > 13 * call.overall_avg.n * call.topic_time.d,
        10 * call.topic_time.n * call.overall_avg.d
            < 9 * call.overall_avg.n * call.topic_time.d)

\* The same, a time exactly on its threshold counting as beyond it.
FirstMatchingDifficultyOnThreshold(call) ==
    MatchingDifficulty(call,
        10 * call.topic_time.n * call.overall_avg.d
            >= 13 * call.overall_avg.n * call.topic_time.d,
        10 * call.topic_time.n * call.overall_avg.d
            <= 9 * call.overall_avg.n * call.topic_time.d)

\* Both averages are whole numbers of seconds.
WholeSeconds(call) == call.topic_time.d = 1 /\ call.overall_avg.d = 1

\* C23 as stated: the topic difficulty label is chosen by the first matching
\* rule in this order: score% < -10 very_difficult_avoid; score% < 10
\* difficult_risky; accuracy < 50 and topic average time > 1.3 x overall
\* average time time_consuming_risky; score% > 70 and topic average time <
\* 0.9 x overall average time comfortable_strength; else moderate; a topic
\* with zero questions gets insufficient_data.  Every topic receives exactly
\* one of these labels.  (Violated: a topic average of 11.7 s against an
\* overall average of 13 s, exactly 0.9 x, with a score of 100 % is labelled
\* 'comfortable_strength': the float 13 * 0.9 is 11.700000000000001.)
C23_DifficultyByFirstMatchingRule ==
    DifficultyReturned =>
        /\ ret = FirstMatchingDifficulty(calls[1])
        /\ ret \in DifficultyLabels

\* C23 (amended): the topic difficulty label is chosen by the first matching
\* rule in the stated order, and every topic receives exactly one of the six
\* labels; the comparisons of the topic average time with 1.3 x and 0.9 x
\* the overall average are strict when the two averages are whole seconds or
\* the topic time is not exactly on the threshold, and a topic time exactly
\* on a threshold between averages that are fractions of a second counts as
\* on either side, as the rounding of the float product decides.
C23_DifficultyByRulesOnFloats ==
    DifficultyReturned =>
        /\ (WholeSeconds(calls[1])
                \/ ~(OnSlowThreshold(calls[1]) \/ OnQuickThreshold(calls[1]))) =>
              ret = FirstMatchingDifficulty(calls[1])
        /\ ret \in { FirstMatchingDifficulty(calls[1]),
                      FirstMatchingDifficultyOnThreshold(calls[1]) }
        /\ ret \in DifficultyLabels

\* C23 witness: a topic answered in 11.7 s on average against an overall
\* average of 13 s, with a score of 100 %, has been labelled
\* 'comfortable_strength'.
C23_Witness ==
    /\ DifficultyReturned
    /\ calls[1].total_questions = 10
    /\ calls[1].marks = 10 * MarkScale
    /\ calls[1].overall_avg = Rat(13, 1)
    /\ calls[1].topic_time = Rat(117, 10)
    /\ OnQuickThreshold(calls[1])
    /\ ret = "comfortable_strength"

\* A topic time exactly 1.3 x the overall average, both fractions of a
\* second, with an accuracy of 40 %: 'time_consuming_risky'.
C23_FractionOnSlowThresholdReached ==
    /\ DifficultyReturned
    /\ calls[1].overall_avg = Rat(13, 3)
    /\ calls[1].topic_time = Rat(169, 30)
    /\ OnSlowThreshold(calls[1])
    /\ ret = "time_consuming_risky"

\* A slow, inaccurate topic with a score under 10 % has been labelled: the
\* score rule comes first.
C23_ScoreRuleFirstReached ==
    /\ DifficultyReturned
    /\ calls[1].total_questions = 10
    /\ calls[1].marks = 2 * (MarkScale \div 3)
    /\ calls[1].accuracy = Rat(49, 1)
    /\ calls[1].overall_avg = Rat(30, 1)
    /\ calls[1].topic_time = Rat(40, 1)
    /\ ret = "difficult_risky"

\* Each label has been returned, the time rules on both sides of their
\* bounds.
C23_EveryLabelReached ==
    /\ DifficultyReturned
    /\ calls[1].total_questions = 10
    /\ calls[1].accuracy = Rat(49, 1)
    /\ calls[1].overall_avg = Rat(30, 1)
    /\ \/ calls[1].marks = 3 * (MarkScale \div 3)
          /\ calls[1].topic_time = Rat(39, 1) /\ ret = "moderate"
       \/ calls[1].marks = 3 * (MarkScale \div 3)
          /\ calls[1].topic_time = Rat(40, 1) /\ ret = "time_consuming_risky"
       \/ calls[1].marks = 22 * (MarkScale \div 3)
          /\ calls[1].topic_time = Rat(26, 1) /\ ret = "comfortable_strength"
       \/ calls[1].marks = 21 * (MarkScale \div 3)
          /\ calls[1].topic_time = Rat(26, 1) /\ ret = "moderate"
       \/ calls[1].marks = -3 * (MarkScale \div 3)
          /\ calls[1].topic_time = Rat(26, 1) /\ ret = "difficult_risky"
       \/ calls[1].marks = -4 * (MarkScale \div 3)
          /\ calls[1].topic_time = Rat(26, 1) /\ ret = "very_difficult_avoid"

C23_ZeroQuestionsReached ==
    /\ DifficultyReturned
    /\ calls[1].total_questions = 0
    /\ ret = "insufficient_data"

\* The arguments the aggregator passes _assess_topic_difficulty for a bucket
\* of the report: the unrounded figures of the bucket and the overall average
\* time of the report.
DifficultyCallOf(results, bucket) ==
    LET members   == PositionsOfTopic(results, bucket.topic)
        attempted == {i \in members : ~results[i].is_skipped}
        correct   == bucket.data.correct_answers
        accepted  == Accepted(results)
    IN  [ topic_time  |-> Rat(SumTimes(results, attempted, Len(results)),
                              Max(1, Cardinality(attempted))),
          overall_avg |-> Rat(SumTimes(results, accepted, Len(results)),
                              Max(1, Cardinality(accepted))),
          accuracy    |-> Rat(100 * correct, Max(1, Cardinality(attempted))),
          marks       |-> correct * MarkScale
                            - (Cardinality(attempted) - correct)
                                * (MarkScale \div 3),
          total_questions |-> Cardinality(members) ]

\* Every bucket of a report carries the label of the rules applied to these
\* arguments, in the sense of C23 (checked under SpecRecorded).
BucketDifficultyByRules ==
    TopicsReturned =>
        \A k \in 1..Len(ret.topic_wise_analysis) :
            LET call == DifficultyCallOf(test_results, ret.topic_wise_analysis[k])
                label == ret.topic_wise_analysis[k].data.difficulty_assessment
            IN  /\ (WholeSeconds(call)
                        \/ ~(OnSlowThreshold(call) \/ OnQuickThreshold(call))) =>
                      label = FirstMatchingDifficulty(call)
                /\ label \in { FirstMatchingDifficulty(call),
                                FirstMatchingDifficultyOnThreshold(call) }

(***************************************************************************)
(* The answer distribution (checked under SpecRecorded)                    *)
(***************************************************************************)
\* The three classes of the marking loop: skipped first, then correct, then
\* incorrect.
SkippedClass(results) == {i \in 1..Len(results) : results[i].is_skipped}

CorrectClass(results) ==
    {i \in 1..Len(results) : ~results[i].is_skipped /\ results[i].is_correct}

IncorrectClass(results) ==
    {i \in 1..Len(results) : ~results[i].is_skipped /\ ~results[i].is_correct}

ClassOf(results, i) ==
    IF i \in SkippedClass(results) THEN "skipped"
    ELSE IF i \in CorrectClass(results) THEN "correct"
    ELSE "incorrect"

\* The distribution is that of the three classes, the marking_type of every
\* entry of question_wise_marks is the class of its attempt, and the three
\* rates are percentages.
DistributionPartitions(results, report) ==
    LET dist == report.answer_distribution
        eff  == report.efficiency_metrics
        qwm  == report.question_wise_marks
    IN  /\ dist.total_questions = Len(results)
        /\ dist.correct_answers + dist.incorrect_answers + dist.skipped_answers
              = dist.total_questions
        /\ dist.correct_answers = Cardinality(CorrectClass(results))
        /\ dist.incorrect_answers = Cardinality(IncorrectClass(results))
        /\ dist.skipped_answers = Cardinality(SkippedClass(results))
        /\ \A k \in 1..Len(qwm) :
              qwm[k].marking_type = ClassOf(results, qwm[k].question_number)
        /\ 0 <= eff.accuracy_rate /\ eff.accuracy_rate <= 100 * 100
        /\ 0 <= eff.attempt_rate /\ eff.attempt_rate <= 100 * 100
        /\ 0 <= eff.correct_attempt_ratio
        /\ eff.correct_attempt_ratio <= 100 * 100

\* C24: for every non-empty attempt list the answer distribution partitions
\* the attempts: correct_answers + incorrect_answers + skipped_answers =
\* total_questions, each attempt is counted in exactly one of the three, the
\* marking_type given to an attempt in question_wise_marks agrees with the
\* count it is included in, and accuracy_rate, attempt_rate and
\* correct_attempt_ratio all lie in [0, 100]; the overall figures of
\* analyze_performance repeat the same counts.
C24_DistributionPartitionsAttempts ==
    /\ Marked => DistributionPartitions(test_results, ret)
    /\ (op = "analyze_performance" /\ "overall_performance" \in DOMAIN ret) =>
          /\ DistributionPartitions(test_results, ret.negative_marking_analysis)
          /\ ret.overall_performance.incorrect_answers
                = Cardinality(IncorrectClass(test_results))

\* A list of one correct, one incorrect and one skipped attempt has been
\* marked and each attempt is counted in its own class.
C24_Witness ==
    /\ Marked
    /\ ret.answer_distribution.correct_answers = 1
    /\ ret.answer_distribution.incorrect_answers = 1
    /\ ret.answer_distribution.skipped_answers = 1
    /\ ret.answer_distribution.total_questions = 3
    /\ Len(ret.question_wise_marks) = 3
    /\ \A k \in 1..3 :
          ret.question_wise_marks[k].marking_type
              = ClassOf(test_results, ret.question_wise_marks[k].question_number)

(***************************************************************************)
(* The three computations of the marks (checked under SpecRecorded)        *)
(***************************************************************************)
RECURSIVE SumTopicMarks(_, _)
\* The sum of marks_earned over the first n buckets, in thousandths.
SumTopicMarks(topic_analysis, n) ==
    IF n = 0 THEN 0
    ELSE SumTopicMarks(topic_analysis, n - 1)
            + topic_analysis[n].data.marks_earned

\* The correct attempts that earn the speed bonus.
BonusAttempts(results) ==
    {i \in CorrectClass(results) :
        /\ IsNumeric(results[i].time_taken)
        /\ results[i].time_taken.v < MARKING_SCHEME.time_bonus_threshold}

\* analyze_performance has returned a report.
MarksReported ==
    /\ op = "analyze_performance"
    /\ "overall_performance" \in DOMAIN ret

\* The three figures of one report, in thousandths of a mark (0.1 mark is
\* 100 thousandths).
MarksAgree(results, report) ==
    LET topic_marks == SumTopicMarks(report.topic_wise_analysis,
                                     Len(report.topic_wise_analysis))
        current_marks == report.strategy_analysis.current_performance.marks
        total_marks ==
            report.negative_marking_analysis.marking_summary.total_marks_earned
    IN  /\ topic_marks = current_marks
        /\ current_marks = total_marks - 100 * Cardinality(BonusAttempts(results))

\* The original statement of C25: the three figures agree exactly.
C25_RecomputationsAgree ==
    MarksReported => MarksAgree(test_results, ret)

\* correct - incorrect/3 over the attempts at the positions idx, in
\* 1/MarkScale.
BonusFreeMarks(results, idx) ==
    Cardinality(idx \cap CorrectClass(results)) * MarkScale
        - Cardinality(idx \cap IncorrectClass(results)) * (MarkScale \div 3)

\* The three figures of one report agree up to the rounding of the buckets.
MarksAgreeUpToRounding(results, report) ==
    LET topics == report.topic_wise_analysis
        topic_marks == SumTopicMarks(topics, Len(topics))
        current_marks == report.strategy_analysis.current_performance.marks
        total_marks ==
            report.negative_marking_analysis.marking_summary.total_marks_earned
    IN  /\ \A k \in 1..Len(topics) :
              topics[k].data.marks_earned
                  = Round3(BonusFreeMarks(results,
                               PositionsOfTopic(results, topics[k].topic)))
        /\ current_marks = Round3(BonusFreeMarks(results, 1..Len(results)))
        /\ current_marks = total_marks - 100 * Cardinality(BonusAttempts(results))
        /\ 3 * Abs(topic_marks - current_marks) <= Len(topics) + 1

\* C25: the three bonus-free recomputations of marks agree for every attempt
\* list up to the rounding of the buckets: the strategy evaluator's
\* current_marks (correct - incorrect/3, rounded to 3 decimals) equals the
\* marking engine's total_marks_earned minus 0.1 for each correct attempt
\* answered in under 30 seconds, each bucket's marks are its own
\* correct - incorrect/3 rounded to 3 decimals, and their sum differs from
\* current_marks by at most (buckets + 1)/3 thousandths: not at all with
\* one bucket, by at most 0.001 with two or three.
C25_RecomputationsAgreeUpToRounding ==
    MarksReported => MarksAgreeUpToRounding(test_results, ret)

\* A report on an incorrect "sql" attempt and an incorrect "signal" attempt
\* has been produced: the buckets hold -0.333 each, and current_marks and
\* total_marks_earned are -0.667.
C25_Witness ==
    /\ MarksReported
    /\ Len(test_results) = 2
    /\ Len(ret.topic_wise_analysis) = 2
    /\ ret.topic_wise_analysis[1].data.marks_earned = -333
    /\ ret.topic_wise_analysis[2].data.marks_earned = -333
    /\ ret.strategy_analysis.current_performance.marks = -667
    /\ ret.negative_marking_analysis.marking_summary.total_marks_earned = -667

\* A report on a fast correct, an incorrect and a skipped attempt of one
\* topic has been produced: the three figures agree exactly.
RecomputationWithBonusReached ==
    /\ MarksReported
    /\ Len(ret.topic_wise_analysis) = 1
    /\ Cardinality(BonusAttempts(test_results)) = 1
    /\ Cardinality(IncorrectClass(test_results)) = 1
    /\ Cardinality(SkippedClass(test_results)) = 1
    /\ ret.strategy_analysis.current_performance.marks = 667
    /\ ret.negative_marking_analysis.marking_summary.total_marks_earned = 767
    /\ MarksAgree(test_results, ret)

(***************************************************************************)
(* The aggressive strategy with skipped attempts (checked under            *)
(* SpecTiming)                                                             *)
(***************************************************************************)
\* C26: for every attempt list and any number of skipped attempts, the
\* aggressive strategy's marks equal the current marks (the expected gain
\* 0.25 x 1 + 0.75 x (-1/3) per force-attempted skip is zero), so the
\* reported aggressive difference is always 0 and never distinguishes the
\* strategies.
C26_AggressiveDifferenceAlwaysZero ==
    /\ StrategyReported =>
          /\ ret.alternative_strategies.aggressive.difference = 0
          /\ ret.alternative_strategies.aggressive.marks
                = ret.current_performance.marks
    /\ (op = "analyze_performance" /\ "overall_performance" \in DOMAIN ret) =>
          /\ ret.strategy_analysis.alternative_strategies.aggressive.difference
                = 0
          /\ ret.strategy_analysis.alternative_strategies.aggressive.marks
                = ret.strategy_analysis.current_performance.marks

\* A strategy report for six attempts, four of them skipped, one correct and
\* one incorrect: aggressive and current marks are both 0.667.
C26_Witness ==
    /\ StrategyReported
    /\ Len(test_results) = 6
    /\ Cardinality(SkippedClass(test_results)) = 4
    /\ Cardinality(IncorrectClass(test_results)) = 1
    /\ ret.current_performance.marks = 667
    /\ ret.alternative_strategies.aggressive.marks = 667
    /\ ret.alternative_strategies.aggressive.difference = 0

\* A report for a list of skipped attempts only.
C26_AllSkippedReached ==
    /\ StrategyReported
    /\ Len(test_results) = 5
    /\ Cardinality(SkippedClass(test_results)) = 5
    /\ ret.alternative_strategies.aggressive.difference = 0

(***************************************************************************)
(* Skipped attempts submitted over the web (checked under SpecSubmit)      *)
(***************************************************************************)
\* The endpoint has answered a request with an analysis.
SubmitAnalysed ==
    /\ op = "api_submit_results"
    /\ "overall_performance" \in DOMAIN ret

\* The submitted attempts as the analyzer is meant to see them: the flag
\* 'skipped' of the request as is_skipped.
AsSubmitted(results) ==
    [i \in 1..Len(results) |->
        [ question_number |-> ValidatedResult(results[i], i).question_number,
          question      |-> results[i].question,
          is_correct    |-> results[i].is_correct,
          time_taken    |-> results[i].time_taken,
          is_skipped    |-> results[i].skipped,
          pdf_reference |-> <<>> ]]

\* C27: an attempt that the web submission endpoint receives marked as
\* skipped is treated as skipped by the analysis it triggers: it earns 0
\* marks, is counted in skipped_answers and not in incorrect_answers, and is
\* left out of the timing and trend calculations.
C27_SubmittedSkipIsSkipped ==
    SubmitAnalysed =>
        LET submitted == AsSubmitted(calls[1].results)
            marking == ret.negative_marking_analysis
        IN  /\ \A i \in SkippedClass(submitted) :
                  /\ marking.question_wise_marks[i].marks_earned = 0
                  /\ marking.question_wise_marks[i].marking_type = "skipped"
            /\ marking.answer_distribution.skipped_answers
                  = Cardinality(SkippedClass(submitted))
            /\ marking.answer_distribution.incorrect_answers
                  = Cardinality(IncorrectClass(submitted))
            /\ ret.overall_performance.questions_skipped
                  = Cardinality(SkippedClass(submitted))
            /\ ret.overall_performance.average_time_per_question_seconds
                  = MeanTime(submitted, Accepted(submitted))
            /\ ret.performance_trends.time_management_trend
                  = analyze_time_trend(submitted)
            /\ ret.performance_trends.accuracy_trend
                  = analyze_accuracy_trend(submitted)

\* From a request without a skipped attempt the analysis is that of the
\* attempts submitted.
SubmittedAnswersAnalysed ==
    (SubmitAnalysed /\ SkippedClass(AsSubmitted(calls[1].results)) = {}) =>
        /\ ret.negative_marking_analysis
              = calculate_marks_with_negative_grading(
                    AsSubmitted(calls[1].results))

\* Every submitted attempt reaches the analyzer as an answered one.
SubmittedSkipReachesAnalyzerAnswered ==
    SubmitAnalysed =>
        /\ Len(test_results) = Len(calls[1].results)
        /\ \A i \in 1..Len(test_results) : ~test_results[i].is_skipped

\* A request with one skipped attempt among three has been analysed.
SubmittedSkipReached ==
    /\ SubmitAnalysed
    /\ Len(calls[1].results) = 3
    /\ Cardinality(SkippedClass(AsSubmitted(calls[1].results))) = 1

(***************************************************************************)
(* Grade and readiness of one report (checked under SpecGrade)             *)
(***************************************************************************)
\* The grade and the tier of one grade assessment agree.
GradeAgreesWithReadiness(grade_assessment) ==
    LET grade == grade_assessment.letter_grade
        tier  == grade_assessment.gate_readiness.readiness_level
    IN  /\ tier = "ready" => grade \in {"A", "A+"}
        /\ tier = "almost_ready" => grade \in {"B", "B+", "A", "A+"}
        /\ tier = "needs_improvement" => grade \in {"C", "B", "B+", "A", "A+"}
        /\ grade = "D" => tier = "significant_preparation_needed"

\* C28: the grade and the readiness tier of one report agree: readiness
\* 'ready' occurs only with letter grade A or A+, 'almost_ready' only with
\* grade B or better, 'needs_improvement' only with grade C or better, and a
\* grade of D always has readiness 'significant_preparation_needed'.
C28_GradeAndReadinessAgree ==
    /\ Graded => GradeAgreesWithReadiness(ret)
    /\ (op = "analyze_performance" /\ "grade_assessment" \in DOMAIN ret) =>
          GradeAgreesWithReadiness(ret.grade_assessment)

\* A grade of exactly 75 with tier 'ready' has been returned.
C28_Witness ==
    /\ Graded
    /\ ret.overall_score = 75 * 100
    /\ ret.letter_grade = "A"
    /\ ret.gate_readiness.readiness_level = "ready"

\* A grade D has been returned although the rates alone would pass for a
\* higher tier, and a grade C with tier 'needs_improvement'.
C28_GradeDReached ==
    /\ Graded
    /\ ret.letter_grade = "D"
    /\ calls[1].marking_analysis.efficiency_metrics.attempt_rate > 80 * 100
    /\ calls[1].marking_analysis.efficiency_metrics.correct_attempt_ratio
          > 70 * 100
    /\ ret.gate_readiness.readiness_level = "significant_preparation_needed"

C28_GradeCReached ==
    /\ Graded
    /\ ret.letter_grade = "C"
    /\ ret.gate_readiness.readiness_level = "needs_improvement"

(***************************************************************************)
(* Properties of TestTimer (checked under SpecTimer)                       *)
(***************************************************************************)
\* The positions of the record of calls holding a given kind of entry.
EventsOf(event) == {j \in 1..Len(calls) : calls[j].event = event}

\* The last start() or stop() before position j (0 if there is none).
LastStartOrStop(j) ==
    LET before == {i \in 1..(j - 1) : calls[i].event \in {"start", "stop"}}
    IN  IF before = {} THEN 0
        ELSE CHOOSE i \in before : \A h \in before : h <= i

\* The timer is inactive at position j by what happened before: it was never
\* started, or stopped, or its callback was invoked, since the last start().
InactiveBefore(j) ==
    \/ LastStartOrStop(j) = 0
    \/ calls[LastStartOrStop(j)].event = "stop"
    \/ \E i \in (LastStartOrStop(j) + 1)..(j - 1) : calls[i].event = "time_up"

\* What the timer's methods return: stop() an elapsed time in [0, duration],
\* 0 if the timer was never started; get_remaining_time() 0 whenever the
\* timer is not active.
TimerReturns ==
    /\ \A j \in EventsOf("stop") :
          /\ 0 <= calls[j].returned
          /\ calls[j].returned <= timers[1].duration
          /\ (\A i \in 1..(j - 1) : calls[i].event # "start") =>
                calls[j].returned = 0
    /\ \A j \in EventsOf("get_remaining_time") :
          /\ 0 <= calls[j].returned
          /\ calls[j].returned <= timers[1].duration
          /\ ~calls[j].active => calls[j].returned = 0
          /\ InactiveBefore(j) => ~calls[j].active

\* Each countdown thread invokes the callback at most once, so there are
\* never more invocations than starts.
AtMostOnePerStart ==
    /\ \A i, j \in EventsOf("time_up") :
          calls[i].thread = calls[j].thread => i = j
    /\ \A j \in 1..Len(calls) :
          Cardinality({i \in EventsOf("time_up") : i <= j})
            <= Cardinality({i \in EventsOf("start") : i <= j})

\* The position of the start() that created countdown thread k: the k-th one.
StartOfThread(k) ==
    CHOOSE j \in EventsOf("start") :
        Cardinality({i \in EventsOf("start") : i <= j}) = k

\* C29: for a TestTimer, in every interleaving of the countdown thread with
\* start() and stop(): the time-up callback is invoked at most once per
\* start and never after stop() has returned (the countdown thread of a
\* start() invokes nothing once a stop() that followed that start() has
\* returned); stop() returns an elapsed time in [0, duration] (0 if never
\* started); get_remaining_time() returns 0 whenever the timer is not active.
C29_TimerCallbackAndElapsed ==
    /\ AtMostOnePerStart
    /\ \A j \in EventsOf("time_up") :
          \A i \in (StartOfThread(calls[j].thread) + 1)..(j - 1) :
              calls[i].event # "stop"
    /\ TimerReturns

\* What holds in every interleaving: the callback is never invoked while the
\* timer is stopped (the last of the start() and stop() calls before an
\* invocation is a start()), at most once per start, and the methods return
\* what is stated.
NoCallbackWhileStopped ==
    /\ AtMostOnePerStart
    /\ \A j \in EventsOf("time_up") :
          /\ LastStartOrStop(j) # 0
          /\ calls[LastStartOrStop(j)].event = "start"
    /\ TimerReturns

\* A timer that is started once satisfies the whole statement.
StartedOnceNeverAfterStop ==
    Cardinality(EventsOf("start")) <= 1 => C29_TimerCallbackAndElapsed

\* The timer was started with a callback and stopped before the duration was
\* over; the countdown thread has finished since and the callback was never
\* invoked.
StoppedInTimeReached ==
    /\ Len(calls) = 2
    /\ calls[1].event = "start"
    /\ calls[2].event = "stop"
    /\ calls[2].returned = 30
    /\ timers[1].time_up_callback = "callback"
    /\ threads[1].pc = "done"

\* The callback was invoked, and stop() called afterwards returned the
\* duration.
CallbackThenStopReached ==
    /\ Len(calls) = 3
    /\ calls[1].event = "start"
    /\ calls[2].event = "time_up"
    /\ calls[3].event = "stop"
    /\ calls[3].returned = timers[1].duration
    /\ now > calls[3].returned + 1

\* After a second start() the countdown thread of the first one has invoked
\* the callback before the duration of the second start was over.
RestartFiresEarlyReached ==
    /\ Len(calls) = 3
    /\ calls[1].event = "start"
    /\ calls[2].event = "start"
    /\ calls[3].event = "time_up"
    /\ calls[3].thread = 1
    /\ now - timers[1].start_time < timers[1].duration

(***************************************************************************)
(* Expiry of the question timer (checked under SpecConsole)                *)
(***************************************************************************)
\* The position at which time_up was invoked for question q (0 if never).
ExpiredAt(q) ==
    IF \E j \in EventsOf("time_up") : calls[j].thread = q
    THEN CHOOSE j \in EventsOf("time_up") : calls[j].thread = q
    ELSE 0

\* The questions asked so far whose timer ran out before an answer came:
\* time_up was invoked while the main thread was still in input().
ExpiredQuestions ==
    {q \in 1..Len(timers) :
        /\ ExpiredAt(q) # 0
        /\ \A j \in 1..(ExpiredAt(q) - 1) :
              ~(calls[j].event = "input" /\ calls[j].thread = q)}

\* C30: during a console test, if the per-question timer expires before the
\* user enters an answer, the test moves on to the next question without
\* requiring further input for that question (no line is read for the
\* question after time_up was invoked), and the expired question is not
\* recorded as an answer given within the time limit (its result, once
\* recorded, is a skipped one).
C30_ExpiredQuestionMovesOn ==
    \A q \in ExpiredQuestions :
        /\ \A j \in (ExpiredAt(q) + 1)..Len(calls) :
              ~(calls[j].event = "input" /\ calls[j].thread = q)
        /\ q <= Len(test_results) => test_results[q].is_skipped

\* After time_up the main thread is still blocked in the input() of the same
\* question, with nothing but a typed line to release it.
StillWaitingAfterExpiry ==
    \A q \in ExpiredQuestions :
        (q = CurrentQuestion /\ q > Len(test_results)
            /\ ~(\E j \in (ExpiredAt(q) + 1)..Len(calls) : calls[j].event = "input"))
        => (op = "answer" /\ time_up_flag[q])

\* The timer of the question being asked has run out.
CurrentQuestionExpired ==
    /\ op = "answer"
    /\ time_up_flag[CurrentQuestion]

\* Left unattended after the timer ran out, the test gets past the question.
ExpiredLeadsToNextQuestion == CurrentQuestionExpired ~> (op # "answer")

\* A question for which time_up was never invoked is recorded with a time
\* within the duration, and its flag is unset.
AnswerInTimeRecorded ==
    \A q \in 1..Len(test_results) :
        (ExpiredAt(q) = 0) =>
            /\ test_results[q].time_taken.v <= timers[q].duration
            /\ ~time_up_flag[q]

\* The countdown thread ran between input() and timer.stop(): time_up was
\* invoked after the line of the question had been read, and the answer is
\* recorded with the whole duration.
TimeUpBetweenInputAndStopReached ==
    /\ Len(test_results) >= 1
    /\ Len(calls) = 3
    /\ calls[2].event = "input" /\ calls[2].thread = 1 /\ calls[2].line = <<"A">>
    /\ calls[3].event = "time_up" /\ calls[3].thread = 1
    /\ time_up_flag[1]
    /\ test_results[1].is_correct
    /\ test_results[1].time_taken = Num(60)

\* The line " b\t" typed at the first answer prompt is recorded as the
\* answer "B".
StrippedAnswerRecordedReached ==
    /\ Len(test_results) >= 1
    /\ \E j \in 1..Len(calls) :
          /\ calls[j].event = "input" /\ calls[j].thread = 1
          /\ calls[j].line = <<" ", "b", "\t">>
    /\ test_results[1].user_answer = "B"
    /\ ~test_results[1].is_skipped

\* Ctrl+C at the first answer prompt: the question is recorded as answered
\* wrongly in 0 s and the test goes on to the next prompt.
InterruptRecordedReached ==
    /\ op = "next"
    /\ Len(test_results) = 1
    /\ test_results[1].user_answer = "None"
    /\ ~test_results[1].is_correct
    /\ ~test_results[1].is_skipped
    /\ test_results[1].time_taken = Num(0)

\* The first question was answered "A" after its timer had run out: it is
\* recorded as a correct answer given in 60 s.
LateAnswerRecordedReached ==
    /\ Len(test_results) >= 1
    /\ ExpiredAt(1) # 0
    /\ test_results[1].user_answer = "A"
    /\ test_results[1].is_correct
    /\ test_results[1].time_taken = Num(60)
    /\ now > 61
====
